---- MODULE Spec2Model ----
(***************************************************************************)
(* NetworkTap anomaly detection engine (web/core/anomaly_detector.py) and  *)
(* the route that toggles it (web/api/routes_ai.py).                       *)
(*                                                                         *)
(* Spec      the scheduling loop(s) of AnomalyDetector on the asyncio      *)
(*           event loop: start(), stop(), the toggle route, the detection  *)
(*           cycle with its suspension inside the notification callback.   *)
(* FairSpec  Spec with the fairness the event loop gives: a ready task     *)
(*           step, an expired sleep and a pending callback are run.        *)
(* SpecRead  get_recent_anomalies(limit) applied to bounded histories.     *)
(* SpecRare  _detect_rare_destinations applied twice to bounded batches.   *)
(* SpecVolume, SpecScan, SpecBeacon, SpecDns  the other detectors applied  *)
(*           to bounded batches and baselines.                             *)
(* SpecBaseline  the baseline store over a sequence of detection cycles.   *)
(* SpecLoad  the loading of a batch from the lines of a log.               *)
(* SpecFold  the periodic fold of the baseline on a clock.                 *)
(* SpecCycle  one detection cycle, detector by detector.                   *)
(***************************************************************************)
EXTENDS Integers, Sequences, FiniteSets, TLC

VARIABLES
    enabled,      \* config.anomaly_detection_enabled
    running,      \* AnomalyDetector._running
    callback,     \* AnomalyDetector._callback: "unset" | "none" | "cb"
    anomalies,    \* AnomalyDetector.anomalies (the Anomaly History), packed
    task,         \* the asyncio tasks running AnomalyDetector.start()
    folds,        \* number of BaselineStats.update calls made so far
    nextId,       \* identity of the next Anomaly object created
    cycles,       \* history variable: detection cycles begun so far
    stored,       \* history variable: ids appended to self.anomalies since Init
    sent,         \* history variable: ids passed to the callback, in call order
    rd,           \* SpecRead: the latest get_recent_anomalies call [limit, result, called]
    rare,         \* SpecRare: the batch, baseline.known_dest_ips (known0: as it
                  \* was at first), the pass count and the two passes' results
    vol,          \* SpecVolume: hourly_conn_counts, the batch size and the
                  \* result of _detect_volume_anomalies under each profile
    scan,         \* SpecScan: the batch and the result of _detect_port_scan
    beacon,       \* SpecBeacon: the batch and the result of _detect_beaconing
    dns,          \* SpecDns: the DNS batch and the result of the DNS detector
    base,         \* SpecBaseline: the fields of BaselineStats
    loaded,       \* SpecLoad: the log lines and the batch loaded from them
    timeline,     \* SpecFold: the clock, the fold times and the cycles in flight
    cyc           \* SpecCycle: one detection cycle on its batches and baseline

vars == <<enabled, running, callback, anomalies, task, folds, nextId, cycles,
          stored, sent, rd, rare, vol, scan, beacon, dns, base, loaded, timeline, cyc>>

detVars == <<vol, scan, beacon, dns, base, loaded, timeline, cyc>>

loopVars == <<enabled, running, callback, anomalies, task, folds, nextId,
              cycles, stored, sent>>

(***************************************************************************)
(* Bounds of the model.                                                    *)
(***************************************************************************)
MaxTasks == 2
MaxNew == 2
MaxCycles == 2

(***************************************************************************)
(* Program constants.                                                      *)
(***************************************************************************)
max_anomalies == 1000

Min(a, b) == IF a < b THEN a ELSE b
Max(a, b) == IF a > b THEN a ELSE b

(***************************************************************************)
(* Python slicing of a list: s[start:] and s[:stop] for integer bounds.    *)
(* A negative bound counts from the end and is clamped at 0; -0 is 0.      *)
(***************************************************************************)
PySliceFrom(s, start) ==
    LET n == Len(s)
        lo == IF start < 0 THEN Max(n + start, 0) ELSE Min(start, n)
    IN SubSeq(s, lo + 1, n)

PySliceTo(s, stop) ==
    LET n == Len(s)
        hi == IF stop < 0 THEN Max(n + stop, 0) ELSE Min(stop, n)
    IN SubSeq(s, 1, hi)

Range(s) == {s[k] : k \in 1..Len(s)}

(***************************************************************************)
(* The Anomaly History is a list of Anomaly objects, here of their ids.    *)
(* The anomalies it held at Init have the consecutive ids 1..last and stay *)
(* at its front, since the list is only appended to and cut at the front;  *)
(* the variable holds the list packed as [first, last, rest], standing for *)
(* the list first, first+1, ..., last followed by rest.  Hist unpacks the  *)
(* list and Pack packs it; HLen is len() and Extend is list.append of each *)
(* element of s in turn (new ids are larger than last).                    *)
(***************************************************************************)
Hist(h) == [k \in 1..(h.last - h.first + 1) |-> h.first + k - 1] \o h.rest

Pack(s, last) ==
    LET old == Cardinality({k \in 1..Len(s) : s[k] <= last})
    IN [first |-> last - old + 1, last |-> last, rest |-> SubSeq(s, old + 1, Len(s))]

HLen(h) == (h.last - h.first + 1) + Len(h.rest)

Extend(h, s) == [h EXCEPT !.rest = @ \o s]

History == Hist(anomalies)

NoHist == [first |-> 1, last |-> 0, rest |-> <<>>]

(***************************************************************************)
(* The tasks.  pc: "unborn" (not created), "pending" (created by           *)
(* asyncio.create_task, start() not yet entered), "callback" (suspended in *)
(* await self._callback(...)), "sleep" (suspended in asyncio.sleep),       *)
(* "done" (start() returned).  arg is the callback argument of start();    *)
(* batch and i are the cycle's local list `anomalies` and the position of  *)
(* its for loop, h0 (a history variable) the history the cycle began with, *)
(* all three cleared when the cycle ends; outcome (a history variable)     *)
(* tells how the task's latest finished cycle ended: "ok" or "error".      *)
(***************************************************************************)
Tasks == 1..MaxTasks

NoTask == [pc |-> "unborn", arg |-> "none", batch |-> <<>>, i |-> 0,
           h0 |-> NoHist, outcome |-> "none"]

Alive(t) == task[t].pc \in {"callback", "sleep"}
InCycle(t) == task[t].pc = "callback"

NewAnomalies(n) == [k \in 1..n |-> nextId + k - 1]

\* anomaly_detector.py 177-179: trim old anomalies
Trim(h) == IF HLen(h) > max_anomalies
           THEN Pack(PySliceFrom(Hist(h), -max_anomalies), h.last)
           ELSE h

(***************************************************************************)
(* _run_detection_cycle from the for loop on (lines 171-184), entered at   *)
(* position i of the list `batch` with the callback `cb` registered:       *)
(* without a callback the loop, the trim and the baseline fold run without *)
(* suspension; with one, the anomaly is appended and the coroutine is      *)
(* suspended in the callback.  `due` is the outcome of the elapsed-time    *)
(* test of line 183.                                                       *)
(***************************************************************************)
StoreFrom(t, batch, i, h0, cb, due) ==
    IF i > Len(batch) \/ cb # "cb"
    THEN LET rest == SubSeq(batch, i, Len(batch)) IN
         /\ anomalies' = Trim(Extend(anomalies, rest))
         /\ stored' = stored \cup Range(rest)
         /\ sent' = sent
         /\ folds' = IF folds = 0 \/ due THEN folds + 1 ELSE folds
         /\ task' = [task EXCEPT ![t] = [NoTask EXCEPT !.pc = "sleep",
                                                        !.arg = task[t].arg,
                                                        !.outcome = "ok"]]
    ELSE /\ anomalies' = Extend(anomalies, <<batch[i]>>)
         /\ stored' = stored \cup {batch[i]}
         /\ sent' = Append(sent, batch[i])
         /\ folds' = folds
         /\ task' = [task EXCEPT ![t] = [pc |-> "callback", arg |-> @.arg,
                                         batch |-> batch, i |-> i,
                                         h0 |-> h0, outcome |-> @.outcome]]

(***************************************************************************)
(* One pass of `while self._running:` from its test to the next await      *)
(* (lines 143-149 and 156-184).  load: "empty" (no connection loaded:      *)
(* early return), "raise" (a detector raises on the batch: caught at line  *)
(* 146), "ok" with n anomalies returned by the five detectors.             *)
(***************************************************************************)
_run_detection_cycle(t, cb, load, n, due) ==
    /\ cycles < MaxCycles
    /\ cycles' = cycles + 1
    /\ IF load = "ok"
       THEN /\ nextId' = nextId + n
            /\ StoreFrom(t, NewAnomalies(n), 1, anomalies, cb, due)
       ELSE /\ task' = [task EXCEPT ![t].pc = "sleep",
                                    ![t].outcome = IF load = "empty"
                                                   THEN "ok" ELSE "error"]
            /\ UNCHANGED <<anomalies, stored, sent, folds, nextId>>

CycleInputs == {<<"empty", 0>>, <<"raise", 0>>} \cup {<<"ok", n>> : n \in 0..MaxNew}

\* AnomalyDetector.stop (lines 151-154)
stop == running' = FALSE

(***************************************************************************)
(* toggle_anomaly_detection (routes_ai.py 42-63): the handler runs without *)
(* suspension; create_task only makes the task ready.                      *)
(***************************************************************************)
toggle_anomaly_detection(en) ==
    /\ IF en /\ ~running
       THEN /\ \E t \in Tasks :
                 /\ task[t].pc = "unborn"
                 /\ \A u \in Tasks : u < t => task[u].pc # "unborn"
                 /\ task' = [task EXCEPT ![t].pc = "pending", ![t].arg = "none"]
            /\ UNCHANGED running
       ELSE IF ~en /\ running
       THEN stop /\ UNCHANGED task
       ELSE UNCHANGED <<running, task>>
    /\ UNCHANGED <<enabled, callback, anomalies, folds, nextId, cycles, stored, sent>>

\* stop_anomaly_detection (lines 541-545), called directly
StopCall ==
    /\ stop
    /\ UNCHANGED <<enabled, callback, anomalies, task, folds, nextId, cycles,
                   stored, sent>>

(***************************************************************************)
(* AnomalyDetector.start (lines 132-149), first step of the task: the      *)
(* enabled test, the two assignments, the first loop test and the cycle up *)
(* to its first await.                                                     *)
(***************************************************************************)
start(t) ==
    /\ task[t].pc = "pending"
    /\ IF ~enabled
       THEN /\ task' = [task EXCEPT ![t].pc = "done"]
            /\ UNCHANGED <<running, callback, anomalies, folds, nextId, cycles,
                           stored, sent>>
       ELSE /\ running' = TRUE
            /\ callback' = task[t].arg
            /\ \E in \in CycleInputs, due \in BOOLEAN :
                 _run_detection_cycle(t, task[t].arg, in[1], in[2], due)
    /\ UNCHANGED enabled

\* Wake without the loop test of line 143: the stop flag is never consulted
Wake_IgnoresStop(t) ==
    /\ task[t].pc = "sleep"
    /\ \E in \in CycleInputs, due \in BOOLEAN :
         _run_detection_cycle(t, callback, in[1], in[2], due)
    /\ UNCHANGED <<enabled, running, callback>>

\* asyncio.sleep returns (line 149): the loop test of line 143, then a cycle
Wake(t) ==
    /\ task[t].pc = "sleep"
    /\ IF ~running
       THEN /\ task' = [task EXCEPT ![t].pc = "done"]
            /\ UNCHANGED <<anomalies, folds, nextId, cycles, stored, sent>>
       ELSE \E in \in CycleInputs, due \in BOOLEAN :
                 _run_detection_cycle(t, callback, in[1], in[2], due)
    /\ UNCHANGED <<enabled, running, callback>>

\* the callback awaited at line 175 returns: the for loop goes on
CallbackReturn(t) ==
    /\ task[t].pc = "callback"
    /\ \E due \in BOOLEAN :
         StoreFrom(t, task[t].batch, task[t].i + 1, task[t].h0, callback, due)
    /\ UNCHANGED <<enabled, running, callback, nextId, cycles>>

\* CallbackRaise without the try/except of lines 144-147: start() ends
CallbackRaise_Uncaught(t) ==
    /\ task[t].pc = "callback"
    /\ task' = [task EXCEPT ![t] = [NoTask EXCEPT !.pc = "done",
                                                   !.arg = task[t].arg,
                                                   !.outcome = "error"]]
    /\ UNCHANGED <<enabled, running, callback, anomalies, folds, nextId, cycles,
                   stored, sent>>

\* the callback awaited at line 175 raises: the exception leaves the cycle
\* and is caught at line 146
CallbackRaise(t) ==
    /\ task[t].pc = "callback"
    /\ task' = [task EXCEPT ![t] = [NoTask EXCEPT !.pc = "sleep",
                                                   !.arg = task[t].arg,
                                                   !.outcome = "error"]]
    /\ UNCHANGED <<enabled, running, callback, anomalies, folds, nextId, cycles,
                   stored, sent>>

(***************************************************************************)
(* The state at application start-up (app.py 63-69): with detection        *)
(* enabled the lifespan creates the task start(anomaly_callback).  The     *)
(* history is empty, or holds the anomalies of earlier cycles one short of *)
(* the capacity.                                                           *)
(***************************************************************************)
InitialHistories ==
    {Pack(<<>>, 0), Pack([k \in 1..(max_anomalies - 1) |-> k], max_anomalies - 1)}

\* a detector harness that is not in use
Idle == [called |-> FALSE]
DetectorsIdle == /\ vol = Idle /\ scan = Idle /\ beacon = Idle
                 /\ dns = Idle /\ base = Idle /\ loaded = Idle /\ timeline = Idle /\ cyc = Idle

NoRead == [limit |-> 0, result |-> <<>>, called |-> FALSE]
NoRare == [batch |-> <<>>, known |-> {}, known0 |-> {}, pass |-> 0,
           first |-> <<>>, second |-> <<>>]

Init ==
    /\ enabled \in BOOLEAN
    /\ running = FALSE
    /\ callback = "unset"
    /\ anomalies \in InitialHistories
    /\ task = [t \in Tasks |-> IF t = 1 /\ enabled
                               THEN [NoTask EXCEPT !.pc = "pending", !.arg = "cb"]
                               ELSE NoTask]
    /\ folds = 0
    /\ nextId = anomalies.last + 1
    /\ cycles = 0
    /\ stored = {}
    /\ sent = <<>>
    /\ rd = NoRead
    /\ rare = NoRare
    /\ DetectorsIdle

Next ==
    \/ \E en \in BOOLEAN : toggle_anomaly_detection(en) /\ UNCHANGED <<rd, rare, detVars>>
    \/ StopCall /\ UNCHANGED <<rd, rare, detVars>>
    \/ \E t \in Tasks : start(t) /\ UNCHANGED <<rd, rare, detVars>>
    \/ \E t \in Tasks : Wake(t) /\ UNCHANGED <<rd, rare, detVars>>
    \/ \E t \in Tasks : CallbackReturn(t) /\ UNCHANGED <<rd, rare, detVars>>
    \/ \E t \in Tasks : CallbackRaise(t) /\ UNCHANGED <<rd, rare, detVars>>

Spec == Init /\ [][Next]_vars

(***************************************************************************)
(* The event loop runs every ready task step: a created task is entered,   *)
(* an expired sleep resumes its loop, an awaited callback ends (it returns *)
(* or it raises).  Requests (toggle, stop) are under no obligation.        *)
(***************************************************************************)
TaskStep(t) == (start(t) \/ Wake(t) \/ CallbackReturn(t) \/ CallbackRaise(t))
                  /\ UNCHANGED <<rd, rare, detVars>>

\* the fair behaviours start from the freshly constructed detector
InitFair == Init /\ anomalies = Pack(<<>>, 0)

FairSpec == InitFair /\ [][Next]_vars /\ \A t \in Tasks : WF_vars(TaskStep(t))

NoLoopAlive == \A t \in Tasks : ~Alive(t)

\* a step in which a cycle of task t ends with an exception
CycleFails(t) ==
    \/ CallbackRaise(t)
    \/ /\ start(t) \/ Wake(t)
       /\ cycles' = cycles + 1
       /\ task'[t].pc # "callback"
       /\ task'[t].outcome = "error"

\* a step in which a cycle of task t runs from its start to its normal end
\* without suspension, and one in which a suspended cycle ends normally
CycleRunsThrough(t) ==
    /\ start(t) \/ Wake(t)
    /\ cycles' = cycles + 1
    /\ task'[t].pc = "sleep"
    /\ task'[t].outcome = "ok"

CycleResumesToEnd(t) ==
    /\ CallbackReturn(t)
    /\ task'[t].pc = "sleep"

\* the last k elements of s
LastK(s, k) == SubSeq(s, Len(s) - k + 1, Len(s))

Times(a, s) == Cardinality({k \in DOMAIN s : s[k] = a})

(***************************************************************************)
(* C1: at most one scheduling loop is alive and at most one detection      *)
(* cycle is in progress, in every reachable state.                         *)
(***************************************************************************)
C1_SingleLoop ==
    /\ Cardinality({t \in Tasks : Alive(t)}) <= 1
    /\ Cardinality({t \in Tasks : InCycle(t)}) <= 1

(***************************************************************************)
(* C2: when the callback raises for one anomaly of a cycle, all anomalies  *)
(* of that cycle are nevertheless appended to the history and passed to    *)
(* the callback, and the cycle ends normally (trim and fold check run).    *)
(***************************************************************************)
C2_SinkFailureIsolated ==
    [][\A t \in Tasks :
          CallbackRaise(t) /\ task'[t].pc = "sleep" =>
              /\ Range(task[t].batch) \subseteq stored'
              /\ Range(task[t].batch) \subseteq Range(sent')
              /\ task'[t].outcome = "ok"]_vars

(***************************************************************************)
(* C3: the history never holds more than 1000 entries, in any state a      *)
(* reader can observe.                                                     *)
(***************************************************************************)
C3_HistoryCap == Len(History) <= max_anomalies

(***************************************************************************)
(* C4: a cycle that ends normally, begun with history H and having         *)
(* produced the anomalies N, leaves the history equal to the last          *)
(* min(1000, |H|+|N|) elements of H followed by N.                         *)
(***************************************************************************)
C4_HistoryAfterCycle ==
    [][\A t \in Tasks :
          /\ CycleRunsThrough(t) =>
                LET N == [k \in 1..(nextId' - nextId) |-> nextId + k - 1]
                    HN == History \o N
                IN Hist(anomalies') = LastK(HN, Min(max_anomalies, Len(HN)))
          /\ CycleResumesToEnd(t) =>
                LET HN == Hist(task[t].h0) \o task[t].batch
                IN Hist(anomalies') = LastK(HN, Min(max_anomalies, Len(HN)))]_vars

(***************************************************************************)
(* C5: a cycle that raises leaves its loop alive (asleep until the next    *)
(* tick) and the running flag as it is; the loop leaves that sleep by      *)
(* starting another cycle unless stop was requested, and exits only then.  *)
(***************************************************************************)
C5_LoopSurvivesFailure ==
    [][\A t \in Tasks :
          /\ CycleFails(t) =>
                /\ task'[t].pc = "sleep"
                /\ running' = (running \/ task[t].pc = "pending")
          /\ task[t].pc = "sleep" /\ task[t].outcome = "error" /\ Wake(t) =>
                IF running THEN cycles' = cycles + 1 /\ task'[t].pc # "done"
                           ELSE task'[t].pc = "done"]_vars

\* a loop that failed a cycle has begun its next one
C5_Witness ==
    \E t \in Tasks : task[t].pc = "callback" /\ task[t].outcome = "error"

(***************************************************************************)
(* C6: while stop is requested and no start() has run since (the running   *)
(* flag is false), no detection cycle begins; the stop itself leaves the   *)
(* loops and a cycle in progress as they are, and a loop never exits from  *)
(* inside a cycle; and every loop eventually exits unless a start() runs.  *)
(***************************************************************************)
C6_StopHonoured ==
    /\ [][~running /\ ~running' => cycles' = cycles]_vars
    /\ [][running /\ ~running' => task' = task /\ anomalies' = anomalies]_vars
    /\ [][\A t \in Tasks : task[t].pc = "callback" => task'[t].pc # "done"]_vars
    /\ (~running ~> (running \/ NoLoopAlive))

\* stop was requested with a loop alive, and the loops have exited
C6_Witness ==
    /\ enabled /\ ~running /\ NoLoopAlive
    /\ \E t \in Tasks : task[t].pc = "done"

(***************************************************************************)
(* C7: start() entered while the detector is running is a no-op: it        *)
(* returns without starting a loop or a cycle and leaves the running flag  *)
(* and the registered callback unchanged.                                  *)
(***************************************************************************)
C7_StartIdempotent ==
    [][\A t \in Tasks :
          start(t) /\ running =>
              /\ task'[t].pc = "done"
              /\ cycles' = cycles
              /\ running' = running
              /\ callback' = callback]_vars

(***************************************************************************)
(* C8: once start(anomaly_callback) has run, every anomaly appended to the *)
(* history is passed to the callback, exactly once.                        *)
(***************************************************************************)
StartedWithCallback == enabled /\ task[1].pc \notin {"unborn", "pending"}

C8_EveryAnomalyNotified ==
    [][StartedWithCallback =>
          /\ stored' \ stored \subseteq Range(sent') \ Range(sent)
          /\ \A a \in Range(sent') : Times(a, sent') = 1]_vars

(***************************************************************************)
(* SpecRead: get_recent_anomalies on a detector at rest.                   *)
(***************************************************************************)
MaxHist == 3
MaxLimit == 4

AnomalyIds == 1..3

RECURSIVE SeqsUpTo(_, _)
SeqsUpTo(S, n) ==
    IF n = 0 THEN {<<>>}
    ELSE LET shorter == SeqsUpTo(S, n - 1)
         IN shorter \cup {Append(q, a) : q \in shorter, a \in S}

\* Anomaly.to_dict (lines 39-51): a dict holding the anomaly's field values
to_dict(a) == [anomaly |-> a]

\* AnomalyDetector.get_recent_anomalies (lines 502-504)
get_recent_anomalies(limit) ==
    LET recent == PySliceFrom(History, -limit)
    IN [k \in 1..Len(recent) |-> to_dict(recent[k])]

GetRecent(limit) ==
    /\ rd' = [limit |-> limit, result |-> get_recent_anomalies(limit),
              called |-> TRUE]
    /\ UNCHANGED <<loopVars, rare, detVars>>

InitRead ==
    /\ enabled = TRUE
    /\ running = FALSE
    /\ callback = "unset"
    /\ anomalies \in {Pack(h, 0) : h \in SeqsUpTo(AnomalyIds, MaxHist)}
    /\ task = [t \in Tasks |-> NoTask]
    /\ folds = 0
    /\ nextId = 1
    /\ cycles = 0
    /\ stored = {}
    /\ sent = <<>>
    /\ rd = NoRead
    /\ rare = NoRare
    /\ DetectorsIdle

NextRead == \E limit \in 0..MaxLimit : GetRecent(limit)

SpecRead == InitRead /\ [][NextRead]_vars

(***************************************************************************)
(* C9: get_recent_anomalies(limit), limit >= 0, returns the last           *)
(* min(limit, len(history)) entries in history order; none for limit = 0.  *)
(***************************************************************************)
C9_RecentIsLastLimit ==
    rd.called =>
        LET m == Min(rd.limit, Len(History))
        IN rd.result = [k \in 1..m |-> to_dict(History[Len(History) - m + k])]

(***************************************************************************)
(* SpecRare: the Rare-Destination Detector run twice on one batch.         *)
(* Addresses are the strings of the log, as sequences of characters.       *)
(***************************************************************************)
DigitChar == <<"0", "1", "2", "3", "4", "5", "6", "7", "8", "9">>

RECURSIVE Digits(_)
Digits(n) == IF n < 10 THEN <<DigitChar[n + 1]>>
             ELSE Digits(n \div 10) \o <<DigitChar[(n % 10) + 1]>>

\* the dotted-quad text of an IPv4 address
Dotted(o) == Digits(o[1]) \o <<".">> \o Digits(o[2]) \o <<".">>
             \o Digits(o[3]) \o <<".">> \o Digits(o[4])

\* str.startswith with a tuple of prefixes
startswith(str, prefixes) ==
    \E p \in prefixes : Len(p) <= Len(str) /\ SubSeq(str, 1, Len(p)) = p

\* line 256: ("10.", "192.168.", "172.16.", "224.", "255.", "ff")
SkipPrefixes ==
    { <<"1", "0", ".">>,
      <<"1", "9", "2", ".", "1", "6", "8", ".">>,
      <<"1", "7", "2", ".", "1", "6", ".">>,
      <<"2", "2", "4", ".">>,
      <<"2", "5", "5", ".">>,
      <<"f", "f">> }

rare_min_known == 10
rare_limit == 5

\* the Anomaly built at lines 260-271
RareAnomaly(conn) ==
    [anomaly_type |-> "rare_destination", severity |-> 3,
     source_ip |-> conn.orig_h, dest_ip |-> conn.resp_h, dest_port |-> conn.resp_p]

\* the loop remembering a destination only while fewer than rare_limit
\* anomalies were built
RECURSIVE RareLoop_RememberReported(_, _, _, _)
RareLoop_RememberReported(connections, k, known, found) ==
    IF k > Len(connections) THEN [anomalies |-> found, known |-> known]
    ELSE LET conn == connections[k]
             dest_ip == conn.resp_h
         IN IF startswith(dest_ip, SkipPrefixes)
            THEN RareLoop_RememberReported(connections, k + 1, known, found)
            ELSE IF dest_ip # <<>> /\ dest_ip \notin known
            THEN RareLoop_RememberReported(connections, k + 1,
                     IF Len(found) < rare_limit THEN known \cup {dest_ip}
                     ELSE known,
                     Append(found, RareAnomaly(conn)))
            ELSE RareLoop_RememberReported(connections, k + 1, known, found)

\* the for loop of lines 250-273 from connection k on
RECURSIVE RareLoop(_, _, _, _)
RareLoop(connections, k, known, found) ==
    IF k > Len(connections) THEN [anomalies |-> found, known |-> known]
    ELSE LET conn == connections[k]
             dest_ip == conn.resp_h
         IN IF startswith(dest_ip, SkipPrefixes)
            THEN RareLoop(connections, k + 1, known, found)
            ELSE IF dest_ip # <<>> /\ dest_ip \notin known
            THEN RareLoop(connections, k + 1, known \cup {dest_ip},
                          Append(found, RareAnomaly(conn)))
            ELSE RareLoop(connections, k + 1, known, found)

\* the loop with the limit applied inside it: a destination past the limit
\* is neither reported nor remembered
RECURSIVE RareLoopStopAtLimit(_, _, _, _)
RareLoopStopAtLimit(connections, k, known, found) ==
    IF k > Len(connections) \/ Len(found) >= rare_limit
    THEN [anomalies |-> found, known |-> known]
    ELSE LET conn == connections[k]
             dest_ip == conn.resp_h
         IN IF startswith(dest_ip, SkipPrefixes)
            THEN RareLoopStopAtLimit(connections, k + 1, known, found)
            ELSE IF dest_ip # <<>> /\ dest_ip \notin known
            THEN RareLoopStopAtLimit(connections, k + 1, known \cup {dest_ip},
                                     Append(found, RareAnomaly(conn)))
            ELSE RareLoopStopAtLimit(connections, k + 1, known, found)

detect_rare_stop_at_limit(connections, known) ==
    IF Cardinality(known) < rare_min_known
    THEN [anomalies |-> <<>>, known |-> known]
    ELSE RareLoopStopAtLimit(connections, 1, known, <<>>)

\* the detector without the [:5] of line 275
detect_rare_uncapped(connections, known) ==
    IF Cardinality(known) < rare_min_known
    THEN [anomalies |-> <<>>, known |-> known]
    ELSE RareLoop(connections, 1, known, <<>>)

(***************************************************************************)
(* _detect_rare_destinations (lines 244-275) on the batch `connections`    *)
(* with baseline.known_dest_ips = known: the anomalies returned and the    *)
(* known_dest_ips it leaves.                                               *)
(***************************************************************************)
_detect_rare_destinations(connections, known) ==
    IF Cardinality(known) < rare_min_known
    THEN [anomalies |-> <<>>, known |-> known]
    ELSE LET r == RareLoop(connections, 1, known, <<>>)
         IN [anomalies |-> PySliceTo(r.anomalies, rare_limit), known |-> r.known]

(***************************************************************************)
(* The batches: the records of a conn.log of LogLen lines that fall inside *)
(* the lookback window, for every choice of the lines that do.             *)
(***************************************************************************)
LogLen == 9

Conn(src, dst, port) == [orig_h |-> src, resp_h |-> dst, resp_p |-> port]

HostA == Dotted(<<192, 168, 1, 10>>)
HostB == Dotted(<<192, 168, 1, 11>>)

ConnLog ==
    << Conn(HostA, Dotted(<<8, 8, 8, 8>>), 53),
       Conn(HostA, Dotted(<<1, 1, 1, 1>>), 443),
       Conn(HostB, Dotted(<<8, 8, 8, 8>>), 53),
       Conn(HostB, Dotted(<<172, 17, 0, 9>>), 22),
       Conn(HostA, Dotted(<<192, 168, 1, 20>>), 445),
       Conn(HostA, Dotted(<<9, 9, 9, 9>>), 53),
       Conn(HostB, Dotted(<<93, 184, 216, 1>>), 80),
       Conn(HostA, Dotted(<<203, 0, 113, 7>>), 443),
       Conn(HostB, Dotted(<<198, 51, 100, 3>>), 8080),
       Conn(HostA, <<>>, 0),
       Conn(HostB, Dotted(<<100, 64, 0, 1>>), 443),
       Conn(HostA, Dotted(<<1, 1, 1, 1>>), 443) >>

\* the lines of ConnLog at the positions in `keep`, in log order
RECURSIVE Select(_, _)
Select(k, keep) ==
    IF k = 0 THEN <<>>
    ELSE IF k \in keep THEN Append(Select(k - 1, keep), ConnLog[k])
    ELSE Select(k - 1, keep)

Batches == {Select(LogLen, keep) : keep \in SUBSET (1..LogLen)}

\* baselines: one short of warm, just warm, warm and knowing two of the log
KnownCold == {Dotted(<<93, 184, 216, d>>) : d \in 1..9}
KnownWarm == KnownCold \cup {HostA}
Baselines == {KnownCold, KnownWarm,
              KnownWarm \cup {Dotted(<<8, 8, 8, 8>>), Dotted(<<9, 9, 9, 9>>)}}

FirstPass ==
    /\ rare.pass = 0
    /\ LET r == _detect_rare_destinations(rare.batch, rare.known)
       IN rare' = [rare EXCEPT !.pass = 1, !.first = r.anomalies,
                               !.known = r.known]
    /\ UNCHANGED <<loopVars, rd, detVars>>

SecondPass ==
    /\ rare.pass = 1
    /\ LET r == _detect_rare_destinations(rare.batch, rare.known)
       IN rare' = [rare EXCEPT !.pass = 2, !.second = r.anomalies,
                               !.known = r.known]
    /\ UNCHANGED <<loopVars, rd, detVars>>

InitRare ==
    /\ enabled = TRUE
    /\ running = FALSE
    /\ callback = "unset"
    /\ anomalies = Pack(<<>>, 0)
    /\ task = [t \in Tasks |-> NoTask]
    /\ folds = 0
    /\ nextId = 1
    /\ cycles = 0
    /\ stored = {}
    /\ sent = <<>>
    /\ rd = NoRead
    /\ \E b \in Batches, k \in Baselines :
         rare = [batch |-> b, known |-> k, known0 |-> k, pass |-> 0,
                 first |-> <<>>, second |-> <<>>]
    /\ DetectorsIdle

NextRare == FirstPass \/ SecondPass

SpecRare == InitRare /\ [][NextRare]_vars

\* the destinations of batch b the detector reports against the baseline k
NewExternal(b, k) ==
    {b[j].resp_h : j \in 1..Len(b)} \ (k \cup {<<>>}
        \cup {b[j].resp_h : j \in {i \in 1..Len(b) : startswith(b[i].resp_h, SkipPrefixes)}})

(***************************************************************************)
(* C10: the Rare-Destination Detector run a second time on the same batch, *)
(* the baseline changed only by its own first run, returns no anomaly.     *)
(***************************************************************************)
C10_SecondPassSilent == rare.pass = 2 => rare.second = <<>>

\* a warm baseline and a batch of more than rare_limit new destinations:
\* the first pass reports rare_limit of them, the second pass has run
C10_Witness ==
    /\ rare.pass = 2
    /\ Len(rare.first) = rare_limit
    /\ Cardinality(NewExternal(rare.batch, rare.known0)) > rare_limit

(***************************************************************************)
(* SpecVolume: the Volume Detector on a baseline and a batch, under each   *)
(* sensitivity profile.  The floats of the code are modelled by exact      *)
(* arithmetic: a fraction is a pair <<numerator, denominator>> with a      *)
(* positive denominator, and a quotient by a square root is kept as its    *)
(* numerator and the radicand.                                             *)
(***************************************************************************)
MaxSamples == 4

RatGT(a, b) == a[1] * b[2] > b[1] * a[2]

Abs(x) == IF x < 0 THEN -x ELSE x

RECURSIVE Sum(_)
Sum(s) == IF s = <<>> THEN 0 ELSE s[1] + Sum(Tail(s))

RECURSIVE SumSq(_)
SumSq(s) == IF s = <<>> THEN 0 ELSE s[1] * s[1] + SumSq(Tail(s))

\* the thresholds with the z-scores of low and high exchanged
Thresholds_Swapped ==
    [low    |-> [z_score |-> <<2, 1>>],
     medium |-> [z_score |-> <<5, 2>>],
     high   |-> [z_score |-> <<7, 2>>]]

\* lines 115-119: z_score 3.5, 2.5, 2.0
SENSITIVITY_THRESHOLDS ==
    [low    |-> [z_score |-> <<7, 2>>],
     medium |-> [z_score |-> <<5, 2>>],
     high   |-> [z_score |-> <<2, 1>>]]

\* line 130: SENSITIVITY_THRESHOLDS.get(sensitivity, ...["medium"])
thresholds(sensitivity) ==
    IF sensitivity \in DOMAIN SENSITIVITY_THRESHOLDS
    THEN SENSITIVITY_THRESHOLDS[sensitivity]
    ELSE SENSITIVITY_THRESHOLDS["medium"]

\* BaselineStats.avg_conn_count (lines 83-87), as a fraction
avg_conn_count(counts) ==
    IF counts = <<>> THEN <<0, 1>> ELSE <<Sum(counts), Len(counts)>>

\* the variance of BaselineStats.std_conn_count (lines 89-95), as a
\* fraction: std_conn_count is its square root
variance_conn_count(counts) ==
    LET n == Len(counts) IN
    IF n < 2 THEN <<0, 1>>
    ELSE <<n * SumSq(counts) - Sum(counts) * Sum(counts), n * n>>

(***************************************************************************)
(* With n samples of sum S and D = n * (sum of squares) - S * S, so that   *)
(* avg = S/n and std = sqrt(D)/n, the z-score of line 228 is               *)
(* (count - S/(12n)) / (sqrt(D)/(12n)) = (12*n*count - S) / sqrt(D).       *)
(***************************************************************************)
VolumeAnomaly(zn, D) ==
    [anomaly_type |-> "volume_anomaly",
     severity |-> IF zn > 0 THEN 2 ELSE 3,
     score |-> [num |-> Abs(zn), rad |-> D]]

\* the detector reporting spikes only: the test is on z_score, not on
\* abs(z_score)
detect_volume_spikes_only(current_count, counts, thr) ==
    IF Len(counts) < 3 THEN <<>>
    ELSE LET avg == avg_conn_count(counts)
             var == variance_conn_count(counts)
             zn == 12 * Len(counts) * current_count - avg[1]
             p == thr.z_score[1]
             q == thr.z_score[2]
         IN IF avg[1] > 0 /\ var[1] > 0
               /\ zn > 0 /\ q * q * zn * zn > p * p * var[1]
            THEN <<VolumeAnomaly(zn, var[1])>>
            ELSE <<>>

\* _detect_volume_anomalies (lines 218-242) on a batch of current_count
\* connections, with baseline.hourly_conn_counts = counts
_detect_volume_anomalies(current_count, counts, thr) ==
    IF Len(counts) < 3 THEN <<>>
    ELSE LET avg == avg_conn_count(counts)
             var == variance_conn_count(counts)
             zn == 12 * Len(counts) * current_count - avg[1]
             p == thr.z_score[1]
             q == thr.z_score[2]
         IN IF avg[1] > 0 /\ var[1] > 0
               /\ q * q * zn * zn > p * p * var[1]
            THEN <<VolumeAnomaly(zn, var[1])>>
            ELSE <<>>

\* the hourly samples are 12 times the size of a non-empty batch (line 495)
HourlyCounts == {540, 600, 660}
BatchSizes == {1, 50, 60, 61, 65, 100}
Sensitivities == {"low", "medium", "high", "paranoid"}

\* the detector was not run under a profile yet
NotRun == [done |-> FALSE, anomalies |-> <<>>]

DetectVolume(sensitivity) ==
    /\ ~vol.out[sensitivity].done
    /\ vol' = [vol EXCEPT !.out[sensitivity] =
                  [done |-> TRUE,
                   anomalies |-> _detect_volume_anomalies(vol.count, vol.counts,
                                                          thresholds(sensitivity))]]
    /\ UNCHANGED <<loopVars, rd, rare, scan, beacon, dns, base, loaded, timeline, cyc>>

InitVolume ==
    /\ enabled = TRUE
    /\ running = FALSE
    /\ callback = "unset"
    /\ anomalies = Pack(<<>>, 0)
    /\ task = [t \in Tasks |-> NoTask]
    /\ folds = 0
    /\ nextId = 1
    /\ cycles = 0
    /\ stored = {}
    /\ sent = <<>>
    /\ rd = NoRead
    /\ rare = NoRare
    /\ \E cs \in SeqsUpTo(HourlyCounts, MaxSamples), c \in BatchSizes :
         vol = [counts |-> cs, count |-> c,
                out |-> [s \in Sensitivities |-> NotRun]]
    /\ scan = Idle /\ beacon = Idle /\ dns = Idle /\ base = Idle
    /\ loaded = Idle /\ timeline = Idle /\ cyc = Idle

NextVolume == \E s \in Sensitivities : DetectVolume(s)

SpecVolume == InitVolume /\ [][NextVolume]_vars

\* every anomaly of result a is in result b (both computed)
EmittedAlso(a, b) ==
    a.done /\ b.done => Range(a.anomalies) \subseteq Range(b.anomalies)

(***************************************************************************)
(* C11: the z-score thresholds satisfy low > medium > high, and for every  *)
(* baseline and batch a volume anomaly emitted under low is emitted under  *)
(* medium, and one emitted under medium is emitted under high.             *)
(***************************************************************************)
C11_SensitivityMonotone ==
    /\ RatGT(thresholds("low").z_score, thresholds("medium").z_score)
    /\ RatGT(thresholds("medium").z_score, thresholds("high").z_score)
    /\ EmittedAlso(vol.out["low"], vol.out["medium"])
    /\ EmittedAlso(vol.out["medium"], vol.out["high"])

\* the three profiles were run on one input and low reports an anomaly
C11_Witness ==
    /\ vol.out["low"].done /\ vol.out["low"].anomalies # <<>>
    /\ vol.out["medium"].done
    /\ vol.out["high"].done

RECURSIVE GCD(_, _)
GCD(a, b) == IF b = 0 THEN a ELSE GCD(b, a % b)

\* fractions in lowest terms: a/12, the square, the difference with an
\* integer, and the quotient
RatNorm(a) == LET g == GCD(Abs(a[1]), a[2]) IN <<a[1] \div g, a[2] \div g>>
RatOver12(a) == RatNorm(<<a[1], 12 * a[2]>>)
RatSq(a) == <<a[1] * a[1], a[2] * a[2]>>
IntMinusRat(c, a) == <<c * a[2] - a[1], a[2]>>
RatDiv(x, y) ==
    LET a == RatNorm(x)
        b == RatNorm(y)
        g == GCD(Abs(a[1]), b[1])
        h == GCD(a[2], b[2])
    IN <<(a[1] \div g) * (b[2] \div h), (a[2] \div h) * (b[1] \div g)>>

\* the square of z = (count - avg/12) / (std/12), as a fraction (for a
\* positive std), and the sign of z
ZSquared(count, counts) ==
    LET d == IntMinusRat(count, RatOver12(avg_conn_count(counts)))
        v == variance_conn_count(counts)
    IN RatDiv(RatSq(d), <<v[1], 144 * v[2]>>)

ZSign(count, counts) ==
    LET d == IntMinusRat(count, RatOver12(avg_conn_count(counts)))[1]
    IN IF d > 0 THEN 1 ELSE IF d < 0 THEN -1 ELSE 0

\* the score num/sqrt(rad) is |z|
ScoreIsAbsZ(score, count, counts) ==
    /\ score.num >= 0 /\ score.rad > 0
    /\ RatNorm(<<score.num * score.num, score.rad>>) = ZSquared(count, counts)

(***************************************************************************)
(* C14: the Volume Detector emits at most one anomaly, and one exactly     *)
(* when the baseline holds at least 3 samples, avg/12 > 0, std/12 > 0 and  *)
(* |z| exceeds the profile's threshold; severity 2 for z > 0, 3 for z < 0, *)
(* score |z|; avg 600, std 60, count 100: z = 10, severity 2, score 10.    *)
(***************************************************************************)
C14_VolumeAnomaly ==
    \A s \in Sensitivities :
        vol.out[s].done =>
            LET out == vol.out[s].anomalies
                cs == vol.counts
                avg == avg_conn_count(cs)
                v == variance_conn_count(cs)
                due == /\ Len(cs) >= 3
                       /\ avg[1] > 0
                       /\ v[1] > 0
                       /\ RatGT(ZSquared(vol.count, cs),
                                RatSq(thresholds(s).z_score))
            IN /\ Len(out) <= 1
               /\ Len(out) = 1 <=> due
               /\ Len(out) = 1 =>
                    /\ out[1].anomaly_type = "volume_anomaly"
                    /\ out[1].severity = IF ZSign(vol.count, cs) > 0 THEN 2 ELSE 3
                    /\ ZSign(vol.count, cs) # 0
                    /\ ScoreIsAbsZ(out[1].score, vol.count, cs)
               /\ Len(cs) >= 3 /\ avg = <<600 * Len(cs), Len(cs)>>
                    /\ v = <<3600 * v[2], v[2]>> /\ vol.count = 100 =>
                    /\ Len(out) = 1
                    /\ out[1].severity = 2
                    /\ out[1].score.num * out[1].score.num
                          = 10 * 10 * out[1].score.rad

\* the scenario: four samples of average 600 and deviation 60, a batch of
\* 100 connections, the detector run: it reported the spike
C14_Witness ==
    /\ vol.counts = <<540, 660, 540, 660>>
    /\ vol.count = 100
    /\ vol.out["medium"].done
    /\ Len(vol.out["medium"].anomalies) = 1

(***************************************************************************)
(* SpecScan: the Scan Detector on batches built around its two thresholds. *)
(***************************************************************************)
MaxPorts == 21
MaxHosts == 11

port_scan_min == 20
host_scan_min == 10

\* the keys of a dict in insertion order, for the sequence of keys
\* inserted: each key at its first occurrence
KeysInOrder(keys) ==
    LET firsts == {k \in 1..Len(keys) : \A j \in 1..(k - 1) : keys[j] # keys[k]}
        nth(i) == CHOOSE k \in firsts : Cardinality({j \in firsts : j < k}) = i - 1
    IN [i \in 1..Cardinality(firsts) |-> keys[nth(i)]]

\* the values of field f of the records of a batch
FieldOf(connections, f) == [k \in 1..Len(connections) |-> connections[k][f]]

\* score=min(1.0, n / d), as a fraction
ScoreCapped(n, d) == <<Min(n, d), d>>

\* the Anomaly built at lines 297-306
PortScanAnomaly(src_ip, ports) ==
    [anomaly_type |-> "port_scan", severity |-> 2, source_ip |-> src_ip,
     dest_port |-> 0, score |-> ScoreCapped(Cardinality(ports), 50),
     count |-> Cardinality(ports)]

\* the Anomaly built at lines 318-327
HostScanAnomaly(port, dests) ==
    [anomaly_type |-> "host_scan", severity |-> 2, source_ip |-> <<>>,
     dest_port |-> port, score |-> ScoreCapped(Cardinality(dests), 20),
     count |-> Cardinality(dests)]

\* the test of line 290 without `and dest_port`
HasSrc(conn) == conn.orig_h # <<>>

\* lines 290 and 313: the records that enter the two groupings
HasSrcAndPort(conn) == conn.orig_h # <<>> /\ conn.resp_p # 0
HasPort(conn) == conn.resp_p # 0

(***************************************************************************)
(* _detect_port_scan (lines 277-329): the port_scan anomalies in the order *)
(* the sources first appear, then the host_scan anomalies in the order the *)
(* ports first appear.                                                     *)
(***************************************************************************)
_detect_port_scan(connections) ==
    LET srcs == KeysInOrder(FieldOf(SelectSeq(connections, HasSrcAndPort),
                                         "orig_h"))
        src_to_ports == [s \in Range(srcs) |->
            {connections[k].resp_p : k \in {j \in 1..Len(connections) :
                HasSrcAndPort(connections[j]) /\ connections[j].orig_h = s}}]
        ports == KeysInOrder(FieldOf(SelectSeq(connections, HasPort), "resp_p"))
        port_to_dests == [p \in Range(ports) |->
            {connections[k].resp_h : k \in {j \in 1..Len(connections) :
                HasPort(connections[j]) /\ connections[j].resp_p = p}}]
        scanning == SelectSeq(srcs,
            LAMBDA s : Cardinality(src_to_ports[s]) > port_scan_min)
        probed == SelectSeq(ports,
            LAMBDA p : Cardinality(port_to_dests[p]) > host_scan_min)
    IN [k \in 1..Len(scanning) |->
            PortScanAnomaly(scanning[k], src_to_ports[scanning[k]])]
       \o [k \in 1..Len(probed) |->
            HostScanAnomaly(probed[k], port_to_dests[probed[k]])]

HostC == Dotted(<<192, 168, 1, 12>>)
Peer(k) == Dotted(<<10, 0, 0, k>>)
ProbedPort == 445

(***************************************************************************)
(* A batch: HostA contacts the ports 1..p of one host (and, with z, sends  *)
(* a flow whose id.resp_p is 0, as ICMP flows have); with c HostB contacts *)
(* the same ports of another host; HostC probes ProbedPort on m hosts;     *)
(* with e one more record of that port carries no id.resp_h, with u one    *)
(* carries no id.orig_h.                                                   *)
(***************************************************************************)
ScanBatch(p, z, c, m, e, u) ==
    [k \in 1..p |-> Conn(HostA, Peer(1), k)]
    \o (IF z THEN <<Conn(HostA, Peer(1), 0)>> ELSE <<>>)
    \o (IF c THEN [k \in 1..p |-> Conn(HostB, Peer(2), k)] ELSE <<>>)
    \o [k \in 1..m |-> Conn(HostC, Peer(k), ProbedPort)]
    \o (IF e THEN <<Conn(HostC, <<>>, ProbedPort)>> ELSE <<>>)
    \o (IF u THEN <<Conn(<<>>, Peer(1), ProbedPort)>> ELSE <<>>)

DetectScan ==
    /\ ~scan.called
    /\ scan' = [scan EXCEPT !.called = TRUE,
                            !.out = _detect_port_scan(scan.batch)]
    /\ UNCHANGED <<loopVars, rd, rare, vol, beacon, dns, base, loaded, timeline, cyc>>

InitScan ==
    /\ enabled = TRUE
    /\ running = FALSE
    /\ callback = "unset"
    /\ anomalies = Pack(<<>>, 0)
    /\ task = [t \in Tasks |-> NoTask]
    /\ folds = 0
    /\ nextId = 1
    /\ cycles = 0
    /\ stored = {}
    /\ sent = <<>>
    /\ rd = NoRead
    /\ rare = NoRare
    /\ vol = Idle
    /\ \E p \in 0..MaxPorts, m \in 0..MaxHosts, z, c, e, u \in BOOLEAN :
         scan = [batch |-> ScanBatch(p, z, c, m, e, u), out |-> <<>>,
                 called |-> FALSE]
    /\ beacon = Idle /\ dns = Idle /\ base = Idle /\ loaded = Idle /\ timeline = Idle /\ cyc = Idle

NextScan == DetectScan

SpecScan == InitScan /\ [][NextScan]_vars

\* what a batch holds: the source IPs and the ports (0 is no port) and,
\* for a source, the ports it contacted; for a port, the hosts probed on it
SourceIPs(b) == {b[k].orig_h : k \in 1..Len(b)} \ {<<>>}
DestPorts(b) == {b[k].resp_p : k \in 1..Len(b)} \ {0}
PortsOf(b, s) == {b[k].resp_p : k \in {j \in 1..Len(b) : b[j].orig_h = s}} \ {0}
HostsOn(b, p) == {b[k].resp_h : k \in {j \in 1..Len(b) : b[j].resp_p = p}} \ {<<>>}

CountIn(out, Test(_)) == Cardinality({k \in 1..Len(out) : Test(out[k])})

(***************************************************************************)
(* C12: exactly one port_scan anomaly for each source IP that contacted    *)
(* more than 20 distinct destination ports, none for a source that         *)
(* contacted 20 or fewer.                                                  *)
(***************************************************************************)
C12_PortScanBoundary ==
    scan.called =>
        /\ \A s \in SourceIPs(scan.batch) :
              CountIn(scan.out, LAMBDA a : a.anomaly_type = "port_scan"
                                           /\ a.source_ip = s)
                 = IF Cardinality(PortsOf(scan.batch, s)) > 20 THEN 1 ELSE 0
        /\ \A k \in 1..Len(scan.out) :
              scan.out[k].anomaly_type = "port_scan"
                 => scan.out[k].source_ip \in SourceIPs(scan.batch)

\* two sources with exactly 21 distinct ports each (one of them also with a
\* flow without port): one port_scan anomaly for each
C12_Witness ==
    /\ scan.called
    /\ Cardinality({s \in SourceIPs(scan.batch) :
                       Cardinality(PortsOf(scan.batch, s)) = 21}) = 2
    /\ CountIn(scan.out, LAMBDA a : a.anomaly_type = "port_scan") = 2

(***************************************************************************)
(* C13: exactly one host_scan anomaly for each destination port probed on  *)
(* more than 10 distinct destination hosts, none for a port probed on 10   *)
(* or fewer.                                                               *)
(***************************************************************************)
C13_HostScanBoundary ==
    scan.called =>
        /\ \A p \in DestPorts(scan.batch) :
              CountIn(scan.out, LAMBDA a : a.anomaly_type = "host_scan"
                                           /\ a.dest_port = p)
                 = IF Cardinality(HostsOn(scan.batch, p)) > 10 THEN 1 ELSE 0
        /\ \A k \in 1..Len(scan.out) :
              scan.out[k].anomaly_type = "host_scan"
                 => scan.out[k].dest_port \in DestPorts(scan.batch)

(***************************************************************************)
(* SpecBeacon: the Beaconing Detector.  A record's ts is a number of       *)
(* seconds ([kind |-> "num"]), absent or empty ([kind |-> "absent"]) or a  *)
(* value datetime cannot convert ([kind |-> "bad"]).                       *)
(***************************************************************************)
MaxEvents == 5

beacon_min_events == 5

Event(src, dst, ts) == [orig_h |-> src, resp_h |-> dst, ts |-> ts]
At(n) == [kind |-> "num", v |-> n]
NoTs == [kind |-> "absent", v |-> 0]
BadTs == [kind |-> "bad", v |-> 0]

\* line 343 and the try of lines 346-356: the records that reach line 354
Timestamped(conn) ==
    /\ conn.orig_h # <<>> /\ conn.resp_h # <<>>
    /\ conn.ts.kind # "absent" /\ conn.ts.v # 0
    /\ conn.ts.kind # "bad"

\* the pair_times entry of a pair as appended, in batch order
PairTimes_Unsorted(connections, pair) ==
    LET own(conn) == Timestamped(conn) /\ <<conn.orig_h, conn.resp_h>> = pair
        kept == SelectSeq(connections, own)
    IN [k \in 1..Len(kept) |-> kept[k].ts.v]

\* the pair_times entry of a pair after times.sort() (line 363)
PairTimes(connections, pair) ==
    LET own(conn) == Timestamped(conn) /\ <<conn.orig_h, conn.resp_h>> = pair
        kept == SelectSeq(connections, own)
    IN SortSeq([k \in 1..Len(kept) |-> kept[k].ts.v], LAMBDA a, b : a < b)

\* line 364
Intervals(times) == [i \in 1..(Len(times) - 1) |-> times[i + 1] - times[i]]

(***************************************************************************)
(* With k intervals of sum T and D = k * (sum of squares) - T * T:         *)
(* avg_interval = T/k, std_dev = sqrt(D)/k and cv = sqrt(D)/T.  cv < 0.3   *)
(* is 100 * D < 9 * T * T for T > 0; the score 1.0 - cv is kept as the     *)
(* radicand and the denominator of cv.                                     *)
(***************************************************************************)
BeaconAnomaly(pair, times) ==
    LET iv == Intervals(times)
        T == Sum(iv)
    IN [anomaly_type |-> "beaconing", severity |-> 2,
        source_ip |-> pair[1], dest_ip |-> pair[2],
        score |-> [one_minus_sqrt |-> Len(iv) * SumSq(iv) - T * T, over |-> T],
        beacon_count |-> Len(times)]

\* lines 360-379 for one pair
Beacons(times) ==
    IF Len(times) < beacon_min_events THEN FALSE
    ELSE LET iv == Intervals(times)
             k == Len(iv)
             T == Sum(iv)
         IN IF k = 0 THEN FALSE
            ELSE IF T < k THEN FALSE
            ELSE 100 * (k * SumSq(iv) - T * T) < 9 * T * T
                 /\ Len(times) >= beacon_min_events

\* _detect_beaconing (lines 331-393)
_detect_beaconing(connections) ==
    LET timed == SelectSeq(connections, Timestamped)
        pairs == KeysInOrder([k \in 1..Len(timed) |->
                                 <<timed[k].orig_h, timed[k].resp_h>>])
        found == SelectSeq(pairs,
                     LAMBDA pr : Beacons(PairTimes(connections, pr)))
    IN [k \in 1..Len(found) |->
           BeaconAnomaly(found[k], PairTimes(connections, found[k]))]

Gaps == {0, 1, 240, 300, 360}
FirstTs == 1000

RECURSIVE TimesFrom(_, _)
TimesFrom(t0, gaps) ==
    IF gaps = <<>> THEN <<t0>>
    ELSE <<t0>> \o TimesFrom(t0 + gaps[1], Tail(gaps))

Reverse(s) == [k \in 1..Len(s) |-> s[Len(s) + 1 - k]]

(***************************************************************************)
(* A batch: HostA meets Peer(1) at FirstTs and after each of the gaps (the *)
(* records in log order, or reversed); `extra` adds a record of the same   *)
(* pair without a usable ts; with `other`, HostB meets Peer(1) five times  *)
(* every 300 seconds, its records between those of HostA.                  *)
(***************************************************************************)
BeaconBatch(gaps, reversed, extra, other) ==
    LET ts == TimesFrom(FirstTs, gaps)
        own == [k \in 1..Len(ts) |-> Event(HostA, Peer(1), At(ts[k]))]
        more == IF extra = "absent" THEN <<Event(HostA, Peer(1), NoTs)>>
                ELSE IF extra = "bad" THEN <<Event(HostA, Peer(1), BadTs)>>
                ELSE <<>>
        regular == [k \in 1..5 |-> Event(HostB, Peer(1), At(FirstTs + 300 * (k - 1)))]
    IN (IF other THEN SubSeq(regular, 1, 2) ELSE <<>>)
       \o (IF reversed THEN Reverse(own) ELSE own) \o more
       \o (IF other THEN SubSeq(regular, 3, 5) ELSE <<>>)

DetectBeaconing ==
    /\ ~beacon.called
    /\ beacon' = [beacon EXCEPT !.called = TRUE,
                                !.out = _detect_beaconing(beacon.batch)]
    /\ UNCHANGED <<loopVars, rd, rare, vol, scan, dns, base, loaded, timeline, cyc>>

InitBeacon ==
    /\ enabled = TRUE
    /\ running = FALSE
    /\ callback = "unset"
    /\ anomalies = Pack(<<>>, 0)
    /\ task = [t \in Tasks |-> NoTask]
    /\ folds = 0
    /\ nextId = 1
    /\ cycles = 0
    /\ stored = {}
    /\ sent = <<>>
    /\ rd = NoRead
    /\ rare = NoRare
    /\ vol = Idle /\ scan = Idle
    /\ \E gaps \in SeqsUpTo(Gaps, MaxEvents - 1), reversed, other \in BOOLEAN,
          extra \in {"no", "absent", "bad"} :
         beacon = [batch |-> BeaconBatch(gaps, reversed, extra, other),
                   out |-> <<>>, called |-> FALSE]
    /\ dns = Idle /\ base = Idle /\ loaded = Idle /\ timeline = Idle /\ cyc = Idle

NextBeacon == DetectBeaconing

SpecBeacon == InitBeacon /\ [][NextBeacon]_vars

\* the (source, destination) pairs of a batch and the timestamps of a pair
PairsOf(b) ==
    {<<b[k].orig_h, b[k].resp_h>> :
        k \in {j \in 1..Len(b) : b[j].orig_h # <<>> /\ b[j].resp_h # <<>>}}

EventTimes(b, pair) ==
    LET mine(conn) == <<conn.orig_h, conn.resp_h>> = pair /\ conn.ts.kind = "num"
        kept == SelectSeq(b, mine)
    IN SortSeq([k \in 1..Len(kept) |-> kept[k].ts.v], LAMBDA x, y : x < y)

\* n events at times t: the mean interval is (t[n] - t[1]) / (n - 1) = T/k,
\* and cv < 0.3 is 100 * sum((k * interval - T)^2) < 9 * k * T^2
RegularlySpaced(t) ==
    LET n == Len(t)
        k == n - 1
        T == t[n] - t[1]
        dev == [i \in 1..k |-> k * (t[i + 1] - t[i]) - T]
    IN /\ n >= 5
       /\ T >= k
       /\ 100 * SumSq(dev) < 9 * k * T * T

BeaconsFor(out, pair) ==
    CountIn(out, LAMBDA a : a.anomaly_type = "beaconing"
                            /\ <<a.source_ip, a.dest_ip>> = pair)

(***************************************************************************)
(* C15: for each (source, destination) pair of a batch exactly one         *)
(* beaconing anomaly when the pair has at least 5 timestamped events, a    *)
(* mean interval of at least 1 second and a coefficient of variation of    *)
(* the intervals below 0.3, and none otherwise; five events at exact       *)
(* 300-second spacing give one anomaly with score 1.0.                     *)
(***************************************************************************)
C15_BeaconingPerPair ==
    beacon.called =>
        /\ \A pr \in PairsOf(beacon.batch) :
              BeaconsFor(beacon.out, pr)
                 = IF RegularlySpaced(EventTimes(beacon.batch, pr)) THEN 1 ELSE 0
        /\ \A k \in 1..Len(beacon.out) :
              <<beacon.out[k].source_ip, beacon.out[k].dest_ip>>
                 \in PairsOf(beacon.batch)
        /\ \A pr \in PairsOf(beacon.batch) :
              EventTimes(beacon.batch, pr)
                    = [k \in 1..5 |-> FirstTs + 300 * (k - 1)] =>
                 \E k \in 1..Len(beacon.out) :
                    /\ <<beacon.out[k].source_ip, beacon.out[k].dest_ip>> = pr
                    /\ beacon.out[k].score.one_minus_sqrt = 0
                    /\ beacon.out[k].score.over > 0

\* two pairs of one batch, each with five events every 300 seconds, the
\* records of one in reverse order and with a record lacking its ts: one
\* anomaly for each pair
C15_Witness ==
    /\ beacon.called
    /\ Len(beacon.out) = 2
    /\ \A pr \in {<<HostA, Peer(1)>>, <<HostB, Peer(1)>>} :
          EventTimes(beacon.batch, pr) = [k \in 1..5 |-> FirstTs + 300 * (k - 1)]
    /\ beacon.batch[3].ts.v > beacon.batch[4].ts.v
    /\ \E k \in 1..Len(beacon.batch) : beacon.batch[k].ts.kind = "absent"

(***************************************************************************)
(* SpecDns: the checks of the DNS Anomaly Detector on a loaded batch of    *)
(* queries.  Names are sequences of characters.                            *)
(***************************************************************************)
MaxNames == 1
MaxDga == 5
MaxTxt == 21

dga_min_len == 10
dga_min_label == 15
dns_txt_min == 20
dns_limit == 5

\* str.endswith for each of a set of suffixes
endswith(str, suffixes) ==
    \E x \in suffixes :
        Len(x) <= Len(str) /\ SubSeq(str, Len(str) - Len(x) + 1, Len(str)) = x

\* line 436: [".local", ".lan", ".internal", ".arpa"]
LocalSuffixes ==
    { <<".", "l", "o", "c", "a", "l">>,
      <<".", "l", "a", "n">>,
      <<".", "i", "n", "t", "e", "r", "n", "a", "l">>,
      <<".", "a", "r", "p", "a">> }

\* domain.split(".")[0]
FirstLabel(domain) ==
    LET dots == {k \in 1..Len(domain) : domain[k] = "."}
    IN IF dots = {} THEN domain
       ELSE SubSeq(domain, 1, (CHOOSE k \in dots : \A j \in dots : k <= j) - 1)

UpperCase == <<"A", "B", "C", "D", "E", "F", "G", "H", "I", "J", "K", "L", "M",
              "N", "O", "P", "Q", "R", "S", "T", "U", "V", "W", "X", "Y", "Z">>
LowerCase == <<"a", "b", "c", "d", "e", "f", "g", "h", "i", "j", "k", "l", "m",
              "n", "o", "p", "q", "r", "s", "t", "u", "v", "w", "x", "y", "z">>

\* str.lower() of one character
ToLower == [c \in Range(UpperCase) |->
               LowerCase[CHOOSE k \in 1..26 : UpperCase[k] = c]]
Lower(c) == IF c \in DOMAIN ToLower THEN ToLower[c] ELSE c

(***************************************************************************)
(* math.log2 of 1..32 in millionths, rounded down; exact at the powers of  *)
(* two.  Log2Lo and Log2Hi bound the logarithm from below and above.       *)
(***************************************************************************)
Log2Micro ==
    << 0, 1000000, 1584962, 2000000, 2321928, 2584962, 2807354, 3000000,
       3169925, 3321928, 3459431, 3584962, 3700439, 3807354, 3906890, 4000000,
       4087462, 4169925, 4247927, 4321928, 4392317, 4459431, 4523561, 4584962,
       4643856, 4700439, 4754887, 4807354, 4857980, 4906890, 4954196, 5000000 >>

PowersOfTwo == {1, 2, 4, 8, 16, 32}
Log2Lo(c) == Log2Micro[c]
Log2Hi(c) == IF c \in PowersOfTwo THEN Log2Micro[c] ELSE Log2Micro[c] + 1

(***************************************************************************)
(* _calculate_entropy (lines 470-483).  With n = len(s) and the count c of *)
(* each character of s.lower(), the entropy H is the sum of                *)
(* -(c/n) * log2(c/n), that is n * H = n * log2(n) - sum(c * log2(c)).     *)
(* The result is kept as bounds: lo <= n * H * 10^6 <= hi.                 *)
(***************************************************************************)
_calculate_entropy(s) ==
    LET n == Len(s)
        low == [k \in 1..n |-> Lower(s[k])]
        freq == [c \in Range(low) |-> Cardinality({j \in 1..n : low[j] = c})]
        \* the number of characters that occur v times
        having == [v \in 1..n |-> Cardinality({c \in DOMAIN freq : freq[c] = v})]
    IN IF n = 0 THEN [lo |-> 0, hi |-> 0, n |-> 1]
       ELSE [lo |-> n * Log2Lo(n)
                      - Sum([v \in 1..n |-> having[v] * v * Log2Hi(v)]),
             hi |-> n * Log2Hi(n)
                      - Sum([v \in 1..n |-> having[v] * v * Log2Lo(v)]),
             n |-> n]

\* entropy > 3.5 (line 443), the threshold as the fraction 7/2
dga_entropy_min == <<7, 2>>
EntropyExceeds(h, thr) == h.lo * thr[2] > thr[1] * 1000000 * h.n

\* the scenario's name: a label of 26 characters, entropy about 4.29
ExampleDga ==
    <<"x", "7", "q", "9", "z", "2", "v", "v", "v", "8", "a", "1", "b",
      "3", "c", "4", "d", "5", "e", "6", "f", "7", "g", "8", "h", "9",
      ".", "e", "x", "a", "m", "p", "l", "e", ".", "c", "o", "m">>

\* the scenario's benign name
Www ==
    <<"w", "w", "w", ".", "e", "x", "a", "m", "p", "l", "e", ".", "c",
      "o", "m">>

\* the random label under a local suffix
DgaLocal ==
    <<"x", "7", "q", "9", "z", "2", "v", "v", "v", "8", "a", "1", "b",
      "3", "c", "4", "d", "5", "e", "6", "f", "7", "g", "8", "h", "9",
      ".", "l", "o", "c", "a", "l">>

\* a long label of entropy 0
Repeated ==
    <<"a", "a", "a", "a", "a", "a", "a", "a", "a", "a", "a", "a", "a",
      "a", "a", "a", "a", "a", "a", "a", ".", "e", "x", "a", "m", "p",
      "l", "e", ".", "c", "o", "m">>

\* 16 characters, 4 twice and 8 once: entropy exactly 3.5
AtThreshold ==
    <<"a", "a", "b", "b", "c", "c", "d", "d", "e", "f", "g", "h", "i",
      "j", "k", "l", ".", "e", "x", "a", "m", "p", "l", "e", ".", "c",
      "o", "m">>

\* 15 distinct characters: the label is not longer than 15
Short15 ==
    <<"a", "b", "c", "d", "e", "f", "g", "h", "i", "j", "k", "l", "m",
      "n", "o", ".", "e", "x", "a", "m", "p", "l", "e", ".", "c", "o",
      "m">>

\* 16 characters, 8 letters in both cases: entropy 3.0 lower-cased
MixedCase ==
    <<"A", "a", "B", "b", "C", "c", "D", "d", "E", "e", "F", "f", "G",
      "g", "H", "h", ".", "e", "x", "a", "m", "p", "l", "e", ".", "c",
      "o", "m">>

\* a name of one label
Bare ==
    <<"x", "7", "q", "9", "z", "2", "v", "v", "v", "8", "a", "1", "b",
      "3", "c", "4", "d", "5", "e", "6", "f", "7", "g", "8", "h", "9">>

Query(name, qtype) == [query |-> name, qtype_name |-> qtype, orig_h |-> HostA]

\* the Anomaly built at lines 444-453
DgaAnomaly(query) ==
    [anomaly_type |-> "dns_dga", severity |-> 2, source_ip |-> query.orig_h,
     domain |-> query.query,
     entropy |-> _calculate_entropy(FirstLabel(query.query))]

\* the Anomaly built at lines 458-466
TunnelingAnomaly(txt_count) ==
    [anomaly_type |-> "dns_tunneling", severity |-> 2, source_ip |-> <<>>,
     txt_query_count |-> txt_count, score |-> ScoreCapped(txt_count, 50)]

\* the DGA tests without the label-length test of line 441
Suspicious_AnyLabel(query) ==
    LET domain == query.query IN
    /\ ~(domain = <<>> \/ Len(domain) < dga_min_len)
    /\ ~endswith(domain, LocalSuffixes)
    /\ EntropyExceeds(_calculate_entropy(FirstLabel(domain)), dga_entropy_min)

\* lines 431-443: the queries for which a dns_dga anomaly is built
Suspicious(query) ==
    LET domain == query.query IN
    /\ ~(domain = <<>> \/ Len(domain) < dga_min_len)
    /\ ~endswith(domain, LocalSuffixes)
    /\ Len(FirstLabel(domain)) > dga_min_label
    /\ EntropyExceeds(_calculate_entropy(FirstLabel(domain)), dga_entropy_min)

(***************************************************************************)
(* _detect_dns_anomalies from line 429 on, for the loaded batch `queries`: *)
(* the DGA anomalies in batch order, then the tunneling anomaly, and of    *)
(* the whole list the first five (line 468).                               *)
(***************************************************************************)
_detect_dns_anomalies(queries) ==
    LET flagged == SelectSeq(queries, Suspicious)
        dga == [k \in 1..Len(flagged) |-> DgaAnomaly(flagged[k])]
        txt_queries == SelectSeq(queries, LAMBDA q : q.qtype_name = "TXT")
        tunneling == IF Len(txt_queries) > dns_txt_min
                     THEN <<TunnelingAnomaly(Len(txt_queries))>> ELSE <<>>
    IN PySliceTo(dga \o tunneling, dns_limit)

NamePool == {ExampleDga, Www, DgaLocal, Repeated, AtThreshold, Short15,
             MixedCase, Bare}

(***************************************************************************)
(* A DNS batch: A queries for the names, `dga` more A queries for the      *)
(* random name, and `txt` TXT queries, for the random name or the benign.  *)
(***************************************************************************)
DnsBatch(names, dga, txt, random) ==
    [k \in 1..Len(names) |-> Query(names[k], "A")]
    \o [k \in 1..dga |-> Query(ExampleDga, "A")]
    \o [k \in 1..txt |-> Query(IF random THEN ExampleDga ELSE Www, "TXT")]

DetectDns ==
    /\ ~dns.called
    /\ dns' = [dns EXCEPT !.called = TRUE,
                          !.out = _detect_dns_anomalies(dns.batch)]
    /\ UNCHANGED <<loopVars, rd, rare, vol, scan, beacon, base, loaded, timeline, cyc>>

InitDns ==
    /\ enabled = TRUE
    /\ running = FALSE
    /\ callback = "unset"
    /\ anomalies = Pack(<<>>, 0)
    /\ task = [t \in Tasks |-> NoTask]
    /\ folds = 0
    /\ nextId = 1
    /\ cycles = 0
    /\ stored = {}
    /\ sent = <<>>
    /\ rd = NoRead
    /\ rare = NoRare
    /\ vol = Idle /\ scan = Idle /\ beacon = Idle
    /\ \E names \in SeqsUpTo(NamePool, MaxNames), dga \in 0..MaxDga,
          txt \in {0, MaxTxt - 1, MaxTxt}, random \in BOOLEAN :
         dns = [batch |-> DnsBatch(names, dga, txt, random), out |-> <<>>,
                called |-> FALSE]
    /\ base = Idle /\ loaded = Idle /\ timeline = Idle /\ cyc = Idle

NextDns == DetectDns

SpecDns == InitDns /\ [][NextDns]_vars

TxtCount(b) == Cardinality({k \in 1..Len(b) : b[k].qtype_name = "TXT"})

(***************************************************************************)
(* C16: whenever the DNS batch holds more than 20 TXT queries the result   *)
(* holds exactly one dns_tunneling anomaly, whatever the number of DGA     *)
(* anomalies of the batch, and none with 20 or fewer TXT queries.          *)
(***************************************************************************)
C16_TunnelingIndependent ==
    dns.called =>
        CountIn(dns.out, LAMBDA a : a.anomaly_type = "dns_tunneling")
           = IF TxtCount(dns.batch) > 20 THEN 1 ELSE 0

\* the conditions of the DGA check on a queried name
Qualifies(name) ==
    LET label == FirstLabel(name) IN
    /\ Len(name) >= 10
    /\ \A x \in LocalSuffixes : ~endswith(name, {x})
    /\ Len(label) > 15
    /\ EntropyExceeds(_calculate_entropy(label), <<35, 10>>)

QualifyingNames(b) ==
    LET q == SelectSeq(b, LAMBDA x : Qualifies(x.query))
    IN [k \in 1..Len(q) |-> q[k].query]

DgaDomains(out) ==
    LET d == SelectSeq(out, LAMBDA a : a.anomaly_type = "dns_dga")
    IN [k \in 1..Len(d) |-> d[k].domain]

(***************************************************************************)
(* C20: for a DNS batch with fewer than 5 qualifying queries the DGA check *)
(* emits one dns_dga anomaly for a query exactly when the name has at      *)
(* least 10 characters, does not end in .local, .lan, .internal or .arpa,  *)
(* its leftmost label is longer than 15 characters and the entropy of the  *)
(* lower-cased label exceeds 3.5; the scenario's random name gives one     *)
(* anomaly and www.example.com gives none.                                 *)
(***************************************************************************)
C20_DgaCheck ==
    dns.called /\ Len(QualifyingNames(dns.batch)) < 5 =>
        /\ DgaDomains(dns.out) = QualifyingNames(dns.batch)
        /\ Times(ExampleDga, DgaDomains(dns.out))
              = Cardinality({k \in 1..Len(dns.batch) :
                                dns.batch[k].query = ExampleDga})
        /\ Times(Www, DgaDomains(dns.out)) = 0

\* a batch of the two names of the scenario, the detector run: one dns_dga
\* anomaly, for the random name
C20_Witness ==
    /\ dns.called
    /\ dns.batch = <<Query(Www, "A"), Query(ExampleDga, "A")>>
    /\ Len(dns.out) = 1
    /\ dns.out[1].anomaly_type = "dns_dga"
    /\ dns.out[1].domain = ExampleDga

(***************************************************************************)
(* SpecBaseline: the baseline store (BaselineStats) over the operations of *)
(* the detector that reach it: detection cycles, with the Rare-Destination *)
(* Detector and the periodic fold, cycles that fail, stop and start.       *)
(* window_hours is the constructor's parameter; `fed` (a history variable) *)
(* lists the samples passed to update, `by_rare` the addresses the         *)
(* Rare-Destination Detector added, `last` names the latest operation.     *)
(***************************************************************************)
MaxWindow == 2
MaxUpdates == 4

Flow(dst, port, orig_bytes, resp_bytes) ==
    [orig_h |-> HostA, resp_h |-> dst, resp_p |-> port,
     orig_bytes |-> orig_bytes, resp_bytes |-> resp_bytes]

\* update appending without dropping on overflow of hourly_bytes
update_bytes_unbounded(b, conn_count, total_bytes, dest_ips, dest_ports) ==
    LET max_samples == b.window_hours
        counts == Append(b.hourly_conn_counts, conn_count)
        bytes == Append(b.hourly_bytes, total_bytes)
    IN [b EXCEPT !.hourly_conn_counts =
                     IF Len(counts) > max_samples THEN Tail(counts) ELSE counts,
                 !.hourly_bytes = bytes,
                 !.known_dest_ips = @ \cup dest_ips,
                 !.known_dest_ports = @ \cup dest_ports]

\* BaselineStats.update (lines 67-81): append, then pop(0) on overflow
update(b, conn_count, total_bytes, dest_ips, dest_ports) ==
    LET max_samples == b.window_hours
        counts == Append(b.hourly_conn_counts, conn_count)
        bytes == Append(b.hourly_bytes, total_bytes)
    IN [b EXCEPT !.hourly_conn_counts =
                     IF Len(counts) > max_samples THEN Tail(counts) ELSE counts,
                 !.hourly_bytes =
                     IF Len(bytes) > max_samples THEN Tail(bytes) ELSE bytes,
                 !.known_dest_ips = @ \cup dest_ips,
                 !.known_dest_ports = @ \cup dest_ports]

\* _update_baseline assigning the sets of the batch instead of merging them
_update_baseline_replacing_known(b, connections) ==
    LET n == Len(connections)
        dest_ips == {connections[k].resp_h : k \in 1..n} \ {<<>>}
        dest_ports == {connections[k].resp_p : k \in 1..n} \ {0}
        total_bytes == Sum([k \in 1..n |-> connections[k].orig_bytes
                                           + connections[k].resp_bytes])
    IN [update(b, n * 12, total_bytes * 12, dest_ips, dest_ports) EXCEPT
           !.known_dest_ips = dest_ips, !.known_dest_ports = dest_ports]

\* _update_baseline (lines 485-500)
_update_baseline(b, connections) ==
    LET n == Len(connections)
        dest_ips == {connections[k].resp_h : k \in 1..n} \ {<<>>}
        dest_ports == {connections[k].resp_p : k \in 1..n} \ {0}
        total_bytes == Sum([k \in 1..n |-> connections[k].orig_bytes
                                           + connections[k].resp_bytes])
    IN update(b, n * 12, total_bytes * 12, dest_ips, dest_ports)

\* the batches of the cycles: one flow; two flows, one without byte counts
\* (null counts as 0); one new external destination and a record without
\* destination; rare_min_known internal destinations
CycleBatches ==
    { << Flow(Dotted(<<8, 8, 8, 8>>), 53, 60, 100) >>,
      << Flow(Dotted(<<1, 1, 1, 1>>), 443, 500, 1500),
         Flow(Dotted(<<8, 8, 8, 8>>), 53, 0, 0) >>,
      << Flow(Dotted(<<203, 0, 113, 7>>), 8080, 10, 10),
         Flow(<<>>, 0, 0, 0) >>,
      [k \in 1..rare_min_known |-> Flow(Peer(k), ProbedPort, 0, 0)] }

(***************************************************************************)
(* A detection cycle on a non-empty batch, as far as the baseline goes     *)
(* (lines 156-184): the Rare-Destination Detector adds to known_dest_ips;  *)
(* a cycle that fails after it (a later detector or the callback raises)   *)
(* ends there; otherwise the batch is folded in when no fold was made yet  *)
(* or the elapsed-time test of line 183 holds (due).                       *)
(***************************************************************************)
BaselineCycle(connections, fails, due) ==
    LET r == _detect_rare_destinations(connections, base.known_dest_ips)
        b1 == [base EXCEPT !.known_dest_ips = r.known,
                           !.by_rare = @ \cup (r.known \ base.known_dest_ips)]
        sample == <<Len(connections) * 12,
                    12 * Sum([k \in 1..Len(connections) |->
                                 connections[k].orig_bytes
                                 + connections[k].resp_bytes])>>
    IN /\ running
       /\ IF fails
          THEN base' = [b1 EXCEPT !.last = "failed"]
          ELSE IF base.fed = <<>> \/ due
          THEN /\ Len(base.fed) < MaxUpdates
               /\ base' = [_update_baseline(b1, connections) EXCEPT
                              !.fed = Append(@, sample), !.last = "fold"]
          ELSE base' = [b1 EXCEPT !.last = "cycle"]
       /\ UNCHANGED <<loopVars, rd, rare, vol, scan, beacon, dns, loaded, timeline, cyc>>

\* stop() (lines 151-154), and start() up to its loop (lines 132-140): only
\* the running flag changes
BaselineStop ==
    /\ stop
    /\ base' = [base EXCEPT !.last = "stop"]
    /\ UNCHANGED <<enabled, callback, anomalies, task, folds, nextId, cycles,
                   stored, sent, rd, rare, vol, scan, beacon, dns, loaded, timeline, cyc>>

BaselineStart ==
    /\ enabled
    /\ running' = TRUE
    /\ base' = [base EXCEPT !.last = "start"]
    /\ UNCHANGED <<enabled, callback, anomalies, task, folds, nextId, cycles,
                   stored, sent, rd, rare, vol, scan, beacon, dns, loaded, timeline, cyc>>

\* BaselineStats.__init__ (lines 57-65)
NewBaseline(window_hours) ==
    [window_hours |-> window_hours, hourly_conn_counts |-> <<>>,
     hourly_bytes |-> <<>>, known_dest_ips |-> {}, known_dest_ports |-> {},
     fed |-> <<>>, by_rare |-> {}, last |-> "init"]

InitBaseline ==
    /\ enabled = TRUE
    /\ running = TRUE
    /\ callback = "none"
    /\ anomalies = Pack(<<>>, 0)
    /\ task = [t \in Tasks |-> NoTask]
    /\ folds = 0
    /\ nextId = 1
    /\ cycles = 0
    /\ stored = {}
    /\ sent = <<>>
    /\ rd = NoRead
    /\ rare = NoRare
    /\ vol = Idle /\ scan = Idle /\ beacon = Idle /\ dns = Idle
    /\ \E w \in 1..MaxWindow : base = NewBaseline(w)
    /\ loaded = Idle /\ timeline = Idle /\ cyc = Idle

NextBaseline ==
    \/ \E c \in CycleBatches, fails, due \in BOOLEAN : BaselineCycle(c, fails, due)
    \/ BaselineStop
    \/ BaselineStart

SpecBaseline == InitBaseline /\ [][NextBaseline]_vars

\* the first and the second components of a sequence of pairs
Firsts(s) == [k \in 1..Len(s) |-> s[k][1]]
Seconds(s) == [k \in 1..Len(s) |-> s[k][2]]

(***************************************************************************)
(* C17: after any sequence of update calls hourly_conn_counts and          *)
(* hourly_bytes hold at most window_hours entries each, have equal length  *)
(* and hold the most recent samples in arrival order.                      *)
(***************************************************************************)
C17_RollingWindow ==
    LET m == Min(base.window_hours, Len(base.fed)) IN
    /\ Len(base.hourly_conn_counts) <= base.window_hours
    /\ Len(base.hourly_bytes) <= base.window_hours
    /\ Len(base.hourly_conn_counts) = Len(base.hourly_bytes)
    /\ base.hourly_conn_counts = LastK(Firsts(base.fed), m)
    /\ base.hourly_bytes = LastK(Seconds(base.fed), m)

\* more samples were folded in than the window holds
C17_Witness ==
    /\ Len(base.fed) > base.window_hours + 1
    /\ base.window_hours > 1
    /\ base.fed[1] # base.fed[2]

(***************************************************************************)
(* C18: known_dest_ips and known_dest_ports grow monotonically: no step    *)
(* (fold, Rare-Destination Detector, failed cycle, stop, start) removes an *)
(* element from either set.                                                *)
(***************************************************************************)
C18_KnownSetsGrow ==
    [][/\ base.known_dest_ips \subseteq base'.known_dest_ips
       /\ base.known_dest_ports \subseteq base'.known_dest_ports]_vars

\* a cycle that failed after the Rare-Destination Detector had added an
\* address, on a baseline that was folded once and restarted
C18_Witness ==
    /\ base.last = "failed"
    /\ base.by_rare # {}
    /\ base.by_rare \subseteq base.known_dest_ips
    /\ Cardinality(base.known_dest_ports) > 1
    /\ Len(base.fed) > 1

(***************************************************************************)
(* SpecLoad: reading a Zeek log (conn.log by _load_recent_connections,     *)
(* dns.log by the first part of _detect_dns_anomalies).  A line is blank,  *)
(* a comment, text that is not JSON, or a JSON record whose ts is absent,  *)
(* a string, a number, null or a list.  Times are seconds; a string ts     *)
(* holds the time it denotes, or is not a date.                            *)
(***************************************************************************)
MaxLines == 3
NowTs == 2000
lookback == 300
\* a lookback window of one hour
cutoff_hour == NowTs - 3600

\* line 194
cutoff == NowTs - lookback

Blank(k) == [kind |-> "blank", uid |-> k, ts |-> [type |-> "none", val |-> 0]]
Comment(k) == [kind |-> "comment", uid |-> k, ts |-> [type |-> "none", val |-> 0]]
Garbage(k) == [kind |-> "garbage", uid |-> k, ts |-> [type |-> "none", val |-> 0]]
Entry(k, type, val) == [kind |-> "entry", uid |-> k, ts |-> [type |-> type, val |-> val]]

\* what one line of the log does to the loop of lines 199-212: "continue"
\* (lines 201-202, and the except clause of line 211), "append", "old", or
\* "raise" for an exception that line 211 does not catch
LineOutcome(line) ==
    IF line.kind \in {"blank", "comment"} THEN "continue"
    ELSE IF line.kind = "garbage" THEN "continue"          \* JSONDecodeError
    ELSE IF line.ts.type \in {"missing", "text"} THEN "continue"   \* ValueError
    ELSE IF line.ts.type \in {"null", "list"} THEN "raise"  \* TypeError
    ELSE IF line.ts.val >= cutoff THEN "append" ELSE "old"

\* the loop over the lines, left at the first line that raises
RECURSIVE ReadLines(_, _, _)
ReadLines(lines, k, entries) ==
    IF k > Len(lines) THEN [entries |-> entries, raised |-> FALSE]
    ELSE LET o == LineOutcome(lines[k]) IN
         IF o = "raise" THEN [entries |-> entries, raised |-> TRUE]
         ELSE ReadLines(lines, k + 1,
                        IF o = "append" THEN Append(entries, lines[k])
                        ELSE entries)

\* _load_recent_connections (lines 186-216): the outer except logs, and the
\* records read so far are returned
_load_recent_connections(lines) == ReadLines(lines, 1, <<>>).entries

\* the queries that _detect_dns_anomalies examines (lines 405-427): none when
\* the outer except returns
RecentQueries(lines) ==
    LET r == ReadLines(lines, 1, <<>>)
    IN IF r.raised THEN <<>> ELSE r.entries

LineKinds == {"blank", "garbage", "missing", "text", "null", "list",
              "recent", "iso", "edge", "old"}

\* the line of a kind at position k of the log
LineOf(kind, k) ==
    CASE kind = "blank" -> Blank(k)
      [] kind = "comment" -> Comment(k)
      [] kind = "garbage" -> Garbage(k)
      [] kind = "missing" -> Entry(k, "missing", 0)
      [] kind = "text" -> Entry(k, "text", 0)
      [] kind = "null" -> Entry(k, "null", 0)
      [] kind = "list" -> Entry(k, "list", 0)
      [] kind = "recent" -> Entry(k, "number", NowTs - 100)
      [] kind = "iso" -> Entry(k, "string", NowTs - 200)
      [] kind = "edge" -> Entry(k, "number", cutoff)
      [] OTHER -> Entry(k, "number", cutoff - 1)

LoadConnections ==
    /\ ~loaded.called
    /\ loaded' = [loaded EXCEPT !.called = TRUE,
                     !.connections = _load_recent_connections(loaded.lines)]
    /\ UNCHANGED <<loopVars, rd, rare, vol, scan, beacon, dns, base, timeline, cyc>>

ReadDnsLog ==
    /\ ~loaded.dns_called
    /\ loaded' = [loaded EXCEPT !.dns_called = TRUE,
                     !.queries = RecentQueries(loaded.lines)]
    /\ UNCHANGED <<loopVars, rd, rare, vol, scan, beacon, dns, base, timeline, cyc>>

InitLoad ==
    /\ enabled = TRUE
    /\ running = FALSE
    /\ callback = "unset"
    /\ anomalies = Pack(<<>>, 0)
    /\ task = [t \in Tasks |-> NoTask]
    /\ folds = 0
    /\ nextId = 1
    /\ cycles = 0
    /\ stored = {}
    /\ sent = <<>>
    /\ rd = NoRead
    /\ rare = NoRare
    /\ vol = Idle /\ scan = Idle /\ beacon = Idle /\ dns = Idle /\ base = Idle
    /\ timeline = Idle /\ cyc = Idle
    /\ \E kinds \in SeqsUpTo(LineKinds \cup {"comment"}, MaxLines) :
         loaded = [lines |-> [k \in 1..Len(kinds) |-> LineOf(kinds[k], k)],
                   connections |-> <<>>, queries |-> <<>>,
                   called |-> FALSE, dns_called |-> FALSE]

NextLoad == LoadConnections \/ ReadDnsLog

SpecLoad == InitLoad /\ [][NextLoad]_vars

\* a record with a timestamp inside the lookback window
WellFormedRecent(line) ==
    /\ line.kind = "entry"
    /\ line.ts.type \in {"number", "string"}
    /\ line.ts.val >= cutoff

(***************************************************************************)
(* C19: every well-formed record inside the lookback window is in the      *)
(* batch that was loaded, whatever malformed records (unparsable lines,    *)
(* entries whose timestamp is missing, null or of the wrong type) stand    *)
(* before or after it in the log.                                          *)
(***************************************************************************)
C19_MalformedSkipped ==
    \A k \in 1..Len(loaded.lines) :
        WellFormedRecent(loaded.lines[k]) =>
            /\ loaded.called => loaded.lines[k] \in Range(loaded.connections)
            /\ loaded.dns_called => loaded.lines[k] \in Range(loaded.queries)

(***************************************************************************)
(* C30: the Anomaly History is ordered by non-decreasing anomaly timestamp *)
(* in every reachable state.  An Anomaly takes its timestamp when it is    *)
(* created (datetime.now() in the detector) and ids are given in creation  *)
(* order, so the history is chronological when its ids never decrease; the *)
(* anomalies held at Init are the consecutive ids first..last.             *)
(***************************************************************************)
C30_HistoryChronological ==
    /\ \A k \in 1..Len(anomalies.rest) : anomalies.rest[k] > anomalies.last
    /\ \A i, j \in 1..Len(anomalies.rest) :
           i < j => anomalies.rest[i] <= anomalies.rest[j]

\* the destinations of a list of anomalies
DestsOf(out) == {out[k].dest_ip : k \in 1..Len(out)}

(***************************************************************************)
(* C24: the Rare-Destination Detector returns at most 5 anomalies per      *)
(* cycle, none while known_dest_ips holds fewer than 10 entries, and each  *)
(* anomaly is for a distinct destination that was not in known_dest_ips    *)
(* when the cycle began.                                                   *)
(***************************************************************************)
C24_RareBounded ==
    rare.pass >= 1 =>
        /\ Len(rare.first) <= 5
        /\ Cardinality(rare.known0) < 10 => rare.first = <<>>
        /\ Cardinality(DestsOf(rare.first)) = Len(rare.first)
        /\ DestsOf(rare.first) \cap rare.known0 = {}
        /\ \A k \in 1..Len(rare.first) :
               rare.first[k].anomaly_type = "rare_destination"

\* a warm baseline, a batch with more new destinations than the cap, one of
\* them contacted twice: five anomalies
C24_Witness ==
    /\ rare.pass = 1
    /\ Cardinality(rare.known0) >= 10
    /\ Len(rare.first) = 5
    /\ \E i, j \in 1..Len(rare.batch) :
           /\ i < j
           /\ rare.batch[i].resp_h = rare.batch[j].resp_h
           /\ rare.batch[i].resp_h \in DestsOf(rare.first)

\* the text of the first octet, or of the first two, followed by a dot
Octet1(a) == Digits(a) \o <<".">>
Octet2(a, b) == Digits(a) \o <<".">> \o Digits(b) \o <<".">>

\* 10.0.0.0/8, 172.16.0.0/12, 192.168.0.0/16; 224.0.0.0/4; 255.255.255.255
PrivateMulticastBroadcast(ip) ==
    \/ startswith(ip, {Octet1(10), Octet2(192, 168)})
    \/ startswith(ip, {Octet2(172, b) : b \in 16..31})
    \/ startswith(ip, {Octet1(a) : a \in 224..239})
    \/ ip = Dotted(<<255, 255, 255, 255>>)

(***************************************************************************)
(* C25: no rare_destination anomaly is emitted for a destination that is a *)
(* private (10.0.0.0/8, 172.16.0.0/12, 192.168.0.0/16), multicast or       *)
(* broadcast address.                                                      *)
(***************************************************************************)
C25_NoPrivateReported ==
    \A ip \in DestsOf(rare.first) \cup DestsOf(rare.second) :
        ~PrivateMulticastBroadcast(ip)

(***************************************************************************)
(* C27: with a warm baseline, every new external destination of the batch  *)
(* is in known_dest_ips after the cycle, those beyond the first 5 as well, *)
(* and a destination dropped by the cap is reported neither in that cycle  *)
(* nor in a later one.                                                     *)
(***************************************************************************)
C27_DroppedAreRemembered ==
    LET new == NewExternal(rare.batch, rare.known0)
        dropped == new \ DestsOf(rare.first)
    IN (rare.pass >= 1 /\ Cardinality(rare.known0) >= rare_min_known) =>
           /\ new \subseteq rare.known
           /\ DestsOf(rare.first) \subseteq new
           /\ Cardinality(new) > 5 => Cardinality(dropped) = Cardinality(new) - 5
           /\ DestsOf(rare.second) \cap dropped = {}

\* six new external destinations: one is dropped, and a later cycle has seen
\* it again
C27_Witness ==
    /\ rare.pass = 2
    /\ Cardinality(rare.known0) = rare_min_known
    /\ Cardinality(NewExternal(rare.batch, rare.known0)) = 6
    /\ Cardinality(NewExternal(rare.batch, rare.known0) \ DestsOf(rare.first)) = 1

(***************************************************************************)
(* SpecFold: the periodic fold of the baseline (lines 181-184) on a clock  *)
(* of whole seconds.  A cycle that finds anomalies and has a callback is   *)
(* suspended (in flight) between its detectors and its fold test; up to    *)
(* MaxTasks cycles are in flight, since up to MaxTasks loops run; they are  *)
(* listed by their batch sizes, in increasing order (any may resume).  The *)
(* clock starts with the detector's first cycle: now is the time since it  *)
(* began.  History variables: begun (the first cycle has begun),           *)
(* fold_times, first_volume (the time of the first volume anomaly and the  *)
(* number of folds made before it).                                        *)
(***************************************************************************)
MaxTicks == 4
None == -1
fold_after == 3600
seconds_per_day == 86400

\* timedelta.seconds of a non-negative difference of d whole seconds: the
\* seconds within the day, the days being a field of their own
timedelta_seconds(d) == d % seconds_per_day

\* a fold at the end of every cycle
FoldDue_Always(last_update, now) == TRUE

\* lines 182-183
FoldDue(last_update, now) ==
    last_update = None \/ timedelta_seconds(now - last_update) > fold_after

\* a batch of n connections
BatchOf(n) == [k \in 1..n |-> Flow(Peer(1), ProbedPort, 0, 0)]

Delays == {1, fold_after, seconds_per_day}
FoldBatchSizes == {0, 1, 50, 60}

\* the end of a cycle on the batch `connections`: lines 181-184, with
\* last_update set by BaselineStats.update (line 81)
FoldTest(tl, connections) ==
    IF FoldDue(tl.last_update, tl.now)
    THEN [tl EXCEPT !.baseline = _update_baseline(@, connections),
                    !.last_update = tl.now,
                    !.fold_times = Append(@, tl.now)]
    ELSE tl

(***************************************************************************)
(* A pass of the loop with running set (line 143): the batch of n          *)
(* connections is loaded, an empty one ends the cycle (line 160); the      *)
(* Volume Detector runs on the baseline as it is now; the cycle then is    *)
(* suspended in the callback, or goes on to the fold test.                 *)
(***************************************************************************)
TimedCycle(n, suspends) ==
    LET volume == _detect_volume_anomalies(n,
                      timeline.baseline.hourly_conn_counts,
                      thresholds(timeline.sensitivity))
        t1 == [timeline EXCEPT
                  !.begun = TRUE,
                  !.first_volume =
                      IF n > 0 /\ volume # <<>> /\ @.at = None
                      THEN [at |-> timeline.now,
                            folds |-> Len(timeline.fold_times)]
                      ELSE @]
    IN /\ running
       /\ timeline' = IF n = 0 THEN t1
                      ELSE IF suspends
                      THEN [t1 EXCEPT !.inflight =
                               SortSeq(Append(@, n), LAMBDA a, b : a < b)]
                      ELSE FoldTest(t1, BatchOf(n))
       /\ suspends => n > 0 /\ Len(timeline.inflight) < MaxTasks
       /\ UNCHANGED <<loopVars, rd, rare, vol, scan, beacon, dns, base, loaded, cyc>>

\* the callback of the in-flight cycle i returns and the cycle reaches its
\* fold test, or raises and the cycle ends at line 146
TimedResume(i, raises) ==
    LET rest == [k \in 1..(Len(timeline.inflight) - 1) |->
                    timeline.inflight[IF k < i THEN k ELSE k + 1]]
        t1 == [timeline EXCEPT !.inflight = rest]
    IN /\ i \in 1..Len(timeline.inflight)
       /\ timeline' = IF raises THEN t1
                      ELSE FoldTest(t1, BatchOf(timeline.inflight[i]))
       /\ UNCHANGED <<loopVars, rd, rare, vol, scan, beacon, dns, base, loaded, cyc>>

\* time passes
Tick(d) ==
    /\ timeline.begun
    /\ timeline.ticks < MaxTicks
    /\ timeline' = [timeline EXCEPT !.now = @ + d, !.ticks = @ + 1]
    /\ UNCHANGED <<loopVars, rd, rare, vol, scan, beacon, dns, base, loaded, cyc>>

\* stop() (lines 151-154), and start() up to its loop (lines 132-140)
TimedStop ==
    /\ stop
    /\ UNCHANGED <<enabled, callback, anomalies, task, folds, nextId, cycles,
                   stored, sent, rd, rare, detVars>>

TimedStart ==
    /\ enabled
    /\ running' = TRUE
    /\ UNCHANGED <<enabled, callback, anomalies, task, folds, nextId, cycles,
                   stored, sent, rd, rare, detVars>>

InitFold ==
    /\ enabled = TRUE
    /\ running = TRUE
    /\ callback = "cb"
    /\ anomalies = Pack(<<>>, 0)
    /\ task = [t \in Tasks |-> NoTask]
    /\ folds = 0
    /\ nextId = 1
    /\ cycles = 0
    /\ stored = {}
    /\ sent = <<>>
    /\ rd = NoRead
    /\ rare = NoRare
    /\ vol = Idle /\ scan = Idle /\ beacon = Idle /\ dns = Idle /\ base = Idle
    /\ loaded = Idle /\ cyc = Idle
    /\ timeline = [now |-> 0, ticks |-> 0, sensitivity |-> "high",
                   baseline |-> NewBaseline(24), last_update |-> None,
                   inflight |-> <<>>, begun |-> FALSE, fold_times |-> <<>>,
                   first_volume |-> [at |-> None, folds |-> 0]]

NextFold ==
    \/ \E n \in FoldBatchSizes, suspends \in BOOLEAN : TimedCycle(n, suspends)
    \/ \E i \in 1..MaxTasks, raises \in BOOLEAN : TimedResume(i, raises)
    \/ \E d \in Delays : Tick(d)
    \/ TimedStop
    \/ TimedStart

SpecFold == InitFold /\ [][NextFold]_vars

\* a step in which a cycle on a non-empty batch reaches its end
CycleCompletes ==
    \/ \E n \in FoldBatchSizes \ {0} : TimedCycle(n, FALSE)
    \/ \E i \in 1..MaxTasks : TimedResume(i, FALSE)

(***************************************************************************)
(* C21: a cycle on a non-empty batch that completes without error folds    *)
(* the batch exactly when no fold has happened yet or more than 3600       *)
(* seconds have elapsed since the last fold, for every elapsed duration.   *)
(***************************************************************************)
C21_FoldWhenDue ==
    [][CycleCompletes =>
          (timeline'.fold_times # timeline.fold_times <=>
              \/ timeline.fold_times = <<>>
              \/ timeline.now - timeline.last_update > 3600)]_vars

(***************************************************************************)
(* C28: no volume anomaly is emitted before the third fold; successive     *)
(* folds are more than 3600 seconds apart; so none is emitted during the   *)
(* first two hours after the detector's first cycle.                       *)
(***************************************************************************)
C28_NoEarlyVolumeAnomaly ==
    /\ \A k \in 2..Len(timeline.fold_times) :
           timeline.fold_times[k] - timeline.fold_times[k - 1] > 3600
    /\ timeline.first_volume.at # None =>
           /\ timeline.first_volume.folds >= 3
           /\ timeline.first_volume.at > 2 * 3600

\* a volume anomaly was emitted after the third fold while a cycle begun
\* before that fold was in flight, the detector stopped meanwhile
C28_Witness ==
    /\ timeline.first_volume.at # None
    /\ Len(timeline.inflight) > 1
    /\ Len(timeline.fold_times) = 3
    /\ ~running

(***************************************************************************)
(* SpecCycle: one detection cycle (lines 156-184) at time NowTs, detector  *)
(* by detector, on a conn.log, a dns.log and a baseline.  The steps run in *)
(* the order of the code without suspension (the callback returns at       *)
(* once); pc names the step to come.  History variables: before (the       *)
(* baseline and its last_update as the cycle found them), ran (the         *)
(* detectors that were run).                                               *)
(***************************************************************************)
MaxBeats == 5

\* a ts that is a number, with the fields under which the loader (type,
\* val) and the Beaconing Detector (kind, v) read it
Stamp(t) == [type |-> "number", val |-> t, kind |-> "num", v |-> t]

\* a conn.log record and a dns.log record
ConnRecord(k, src, dst, port, t) ==
    [kind |-> "entry", uid |-> k, ts |-> Stamp(t), orig_h |-> src,
     resp_h |-> dst, resp_p |-> port, orig_bytes |-> 100, resp_bytes |-> 400]

DnsRecord(k, name, qtype, t) ==
    [kind |-> "entry", uid |-> k, ts |-> Stamp(t), orig_h |-> HostA,
     query |-> name, qtype_name |-> qtype]

BeaconTarget == Dotted(<<203, 0, 113, 7>>)

\* c connections of HostA to one external host, one every `period` seconds,
\* the last `age` seconds before NowTs
Beats(period, c, age) ==
    [k \in 1..c |-> ConnRecord(k, HostA, BeaconTarget, 443,
                               NowTs - age - period * (c - k))]

Periods == {0, 60, 75, 76, 300}
Ages == {0, lookback + 1}

DnsLogs == { <<>>,
             << DnsRecord(1, ExampleDga, "A", NowTs - 10) >>,
             << DnsRecord(1, ExampleDga, "A", cutoff - 10),
                DnsRecord(2, Www, "A", NowTs - 10) >> }

\* a baseline after three folds of batches of 50, 51 and 50 connections to
\* rare_min_known internal hosts, and its last_update
WarmBaseline ==
    [NewBaseline(24) EXCEPT !.hourly_conn_counts = <<600, 612, 600>>,
                            !.hourly_bytes = <<6000, 6120, 6000>>,
                            !.known_dest_ips = {Peer(k) : k \in 1..rare_min_known},
                            !.known_dest_ports = {ProbedPort}]

Baselines0 ==
    { [baseline |-> NewBaseline(24), last_update |-> None],
      [baseline |-> WarmBaseline, last_update |-> NowTs - 100],
      [baseline |-> WarmBaseline, last_update |-> NowTs - 4000] }

\* the load step continuing with an empty batch
LoadStep_NoEarlyReturn ==
    /\ cyc.pc = "load"
    /\ LET connections == IF cyc.source = "file"
                          THEN _load_recent_connections(cyc.lines) ELSE <<>>
       IN cyc' = [cyc EXCEPT !.connections = connections, !.pc = "volume"]
    /\ UNCHANGED <<loopVars, rd, rare, vol, scan, beacon, dns, base, loaded, timeline>>

\* lines 158-161: the batch is loaded ([] for a missing log, line 192, and
\* for one that cannot be opened, lines 213-214); an empty batch ends the
\* cycle
LoadStep ==
    /\ cyc.pc = "load"
    /\ LET connections == IF cyc.source = "file"
                          THEN _load_recent_connections(cyc.lines) ELSE <<>>
       IN cyc' = [cyc EXCEPT !.connections = connections,
                             !.pc = IF connections = <<>> THEN "done"
                                    ELSE "volume"]
    /\ UNCHANGED <<loopVars, rd, rare, vol, scan, beacon, dns, base, loaded, timeline>>

\* line 165
VolumeStep ==
    /\ cyc.pc = "volume"
    /\ cyc' = [cyc EXCEPT
                  !.found = @ \o _detect_volume_anomalies(Len(cyc.connections),
                                     cyc.baseline.hourly_conn_counts,
                                     thresholds(cyc.sensitivity)),
                  !.ran = @ \cup {"volume"},
                  !.pc = "rare"]
    /\ UNCHANGED <<loopVars, rd, rare, vol, scan, beacon, dns, base, loaded, timeline>>

\* the rare step writing the ports of the batch into known_dest_ports too
RareStep_LearningPorts ==
    /\ cyc.pc = "rare"
    /\ LET r == _detect_rare_destinations(cyc.connections,
                                          cyc.baseline.known_dest_ips)
       IN cyc' = [cyc EXCEPT !.found = @ \o r.anomalies,
                             !.baseline.known_dest_ips = r.known,
                             !.baseline.known_dest_ports =
                                 @ \cup {cyc.connections[k].resp_p :
                                            k \in 1..Len(cyc.connections)},
                             !.ran = @ \cup {"rare"},
                             !.pc = "scan"]
    /\ UNCHANGED <<loopVars, rd, rare, vol, scan, beacon, dns, base, loaded, timeline>>

\* line 166
RareStep ==
    /\ cyc.pc = "rare"
    /\ LET r == _detect_rare_destinations(cyc.connections,
                                          cyc.baseline.known_dest_ips)
       IN cyc' = [cyc EXCEPT !.found = @ \o r.anomalies,
                             !.baseline.known_dest_ips = r.known,
                             !.ran = @ \cup {"rare"},
                             !.pc = "scan"]
    /\ UNCHANGED <<loopVars, rd, rare, vol, scan, beacon, dns, base, loaded, timeline>>

\* line 167
ScanStep ==
    /\ cyc.pc = "scan"
    /\ cyc' = [cyc EXCEPT !.found = @ \o _detect_port_scan(cyc.connections),
                          !.ran = @ \cup {"scan"},
                          !.pc = "beacon"]
    /\ UNCHANGED <<loopVars, rd, rare, vol, scan, beacon, dns, base, loaded, timeline>>

\* line 168
BeaconStep ==
    /\ cyc.pc = "beacon"
    /\ cyc' = [cyc EXCEPT !.found = @ \o _detect_beaconing(cyc.connections),
                          !.ran = @ \cup {"beacon"},
                          !.pc = "dns"]
    /\ UNCHANGED <<loopVars, rd, rare, vol, scan, beacon, dns, base, loaded, timeline>>

\* line 169: the DNS detector reads dns.log itself
DnsStep ==
    /\ cyc.pc = "dns"
    /\ cyc' = [cyc EXCEPT
                  !.found = @ \o _detect_dns_anomalies(RecentQueries(cyc.dnslines)),
                  !.ran = @ \cup {"dns"},
                  !.pc = "store"]
    /\ UNCHANGED <<loopVars, rd, rare, vol, scan, beacon, dns, base, loaded, timeline>>

\* lines 171-179: every anomaly is appended and passed to the callback,
\* then the history is trimmed
StoreStep ==
    /\ cyc.pc = "store"
    /\ LET all == cyc.history \o cyc.found
       IN cyc' = [cyc EXCEPT
                     !.history = IF Len(all) > max_anomalies
                                 THEN PySliceFrom(all, -max_anomalies) ELSE all,
                     !.notified = @ \o cyc.found,
                     !.pc = "fold"]
    /\ UNCHANGED <<loopVars, rd, rare, vol, scan, beacon, dns, base, loaded, timeline>>

\* lines 181-184
FoldStep ==
    /\ cyc.pc = "fold"
    /\ cyc' = IF FoldDue(cyc.last_update, NowTs)
              THEN [cyc EXCEPT
                       !.baseline = _update_baseline(@, cyc.connections),
                       !.last_update = NowTs,
                       !.pc = "done"]
              ELSE [cyc EXCEPT !.pc = "done"]
    /\ UNCHANGED <<loopVars, rd, rare, vol, scan, beacon, dns, base, loaded, timeline>>

InitCycle ==
    /\ enabled = TRUE
    /\ running = TRUE
    /\ callback = "cb"
    /\ anomalies = Pack(<<>>, 0)
    /\ task = [t \in Tasks |-> NoTask]
    /\ folds = 0
    /\ nextId = 1
    /\ cycles = 0
    /\ stored = {}
    /\ sent = <<>>
    /\ rd = NoRead
    /\ rare = NoRare
    /\ vol = Idle /\ scan = Idle /\ beacon = Idle /\ dns = Idle /\ base = Idle
    /\ loaded = Idle /\ timeline = Idle
    /\ \E source \in {"missing", "unreadable", "file"}, period \in Periods,
          c \in 0..MaxBeats, age \in Ages, d \in DnsLogs, b \in Baselines0 :
         /\ source # "file" => c = 0
         /\ c = 0 => period = 0 /\ age = 0
         /\ cyc = [pc |-> "load", source |-> source,
                   lines |-> Beats(period, c, age), period |-> period,
                   dnslines |-> d, sensitivity |-> "medium",
                   baseline |-> b.baseline, last_update |-> b.last_update,
                   before |-> b, connections |-> <<>>, found |-> <<>>,
                   ran |-> {}, history |-> <<>>, notified |-> <<>>]

NextCycle ==
    \/ LoadStep
    \/ VolumeStep
    \/ RareStep
    \/ ScanStep
    \/ BeaconStep
    \/ DnsStep
    \/ StoreStep
    \/ FoldStep

SpecCycle == InitCycle /\ [][NextCycle]_vars

\* the anomalies of a type in a list
OfType(out, type) == SelectSeq(out, LAMBDA a : a.anomaly_type = type)

\* the anomalies that the DNS detector gives for the dns.log of the cycle
DnsAnomaliesDue == _detect_dns_anomalies(RecentQueries(cyc.dnslines))

(***************************************************************************)
(* C22: in every detection cycle all five detectors are run; the DNS       *)
(* detector is evaluated on the DNS batch of the lookback window and its   *)
(* anomalies are stored and notified, also when the connection batch is    *)
(* empty.                                                                  *)
(***************************************************************************)
C22_AllDetectorsRun ==
    cyc.pc = "done" =>
        /\ cyc.ran = {"volume", "rare", "scan", "beacon", "dns"}
        /\ Range(DnsAnomaliesDue) \subseteq Range(cyc.history)
        /\ Range(DnsAnomaliesDue) \subseteq Range(cyc.notified)

(***************************************************************************)
(* C23: a cycle whose connection batch is empty (missing, unreadable or    *)
(* empty log, or no record inside the lookback window) invokes no          *)
(* callback, emits no volume anomaly and leaves the Anomaly History and    *)
(* BaselineStats (samples, known sets, last fold time) unchanged.          *)
(***************************************************************************)
C23_EmptyBatchNoEffect ==
    (cyc.pc # "load" /\ cyc.connections = <<>>) =>
        /\ cyc.notified = <<>>
        /\ OfType(cyc.found, "volume_anomaly") = <<>>
        /\ cyc.history = <<>>
        /\ cyc.baseline = cyc.before.baseline
        /\ cyc.last_update = cyc.before.last_update
        /\ cyc.pc = "done"

\* an empty batch (records outside the window only) met a baseline that
\* expects traffic and is due for a fold
C23_Witness ==
    /\ cyc.pc = "done"
    /\ cyc.connections = <<>>
    /\ cyc.lines # <<>>
    /\ Len(cyc.baseline.hourly_conn_counts) >= 3
    /\ FoldDue(cyc.last_update, NowTs)

(***************************************************************************)
(* C26: the Volume, Scan, Beaconing and DNS detectors leave BaselineStats  *)
(* unchanged; the Rare-Destination Detector changes nothing in it except   *)
(* adding elements to known_dest_ips.                                      *)
(***************************************************************************)
C26_DetectorsPure ==
    [][/\ cyc.pc \in {"volume", "scan", "beacon", "dns"} =>
              /\ cyc'.baseline = cyc.baseline
              /\ cyc'.last_update = cyc.last_update
       /\ cyc.pc = "rare" =>
              /\ cyc'.baseline = [cyc.baseline EXCEPT !.known_dest_ips =
                                     cyc'.baseline.known_dest_ips]
              /\ cyc.baseline.known_dest_ips \subseteq cyc'.baseline.known_dest_ips
              /\ cyc'.last_update = cyc.last_update]_vars

\* the five detectors have run, the Rare-Destination Detector added an
\* address, and volume, beaconing and DNS anomalies were found
C26_Witness ==
    /\ cyc.pc = "store"
    /\ cyc.baseline.known_dest_ips # cyc.before.baseline.known_dest_ips
    /\ OfType(cyc.found, "volume_anomaly") # <<>>
    /\ OfType(cyc.found, "beaconing") # <<>>
    /\ OfType(cyc.found, "dns_dga") # <<>>

(***************************************************************************)
(* C29: with every record's timestamp not later than the time of loading,  *)
(* a beaconing anomaly emitted by a cycle has a mean interval between 1    *)
(* and 75 seconds, and a pair that beacons every 300 seconds is not        *)
(* reported.                                                               *)
(***************************************************************************)
C29_BeaconIntervalBounded ==
    LET b == OfType(cyc.found, "beaconing") IN
    /\ \A k \in 1..Len(b) :
           /\ b[k].beacon_count >= 5
           /\ b[k].score.over >= 1 * (b[k].beacon_count - 1)
           /\ b[k].score.over <= 75 * (b[k].beacon_count - 1)
    /\ cyc.period = 300 => b = <<>>

\* five connections 75 seconds apart, the first at the cutoff: reported,
\* with a mean interval of 75 seconds
C29_Witness ==
    LET b == OfType(cyc.found, "beaconing") IN
    /\ cyc.pc = "done"
    /\ Len(b) = 1
    /\ b[1].score.over = 75 * 4
    /\ b[1].beacon_count = 5

====
